---- MODULE Spec2Model ----
(***************************************************************************)
(* Model of the Manager firmware of epccs/PiUpdi:                          *)
(*   - the two-wire slave interrupt handlers (Manager/lib/twi.c) and the   *)
(*     per-bus callbacks twisCallback / twi1sCallback, the diagnostic      *)
(*     monitor and the relay logic of main() (Manager/AppUpload/main.c);   *)
(*   - the two-wire master engine of twi.c, driven by an arbitrary caller. *)
(* Interrupt handlers are atomic actions (they do not nest and the main    *)
(* loop cannot preempt them); the main loop is cut at every statement an   *)
(* interrupt can be observed from.                                         *)
(***************************************************************************)
EXTENDS Integers, Sequences, FiniteSets, TLC

\* ------------------------------------------------------------------ bounds
\* slave events the external master causes in one run of SpecSlave
MaxEv == 6
\* slave events the host causes in one run of Spec
MaxCmdEv == 7
\* bytes of one write or read phase, and phases of one session, of the host's
\* commands under Spec
MaxData == 1
MaxPhases == 2
\* sessions an external master starts on one bus in one run of SpecBurst
MaxBursts == 1
\* longest buffer a caller hands to the master engine
MaxN == 1
\* largest timeout a caller passes to twim_waitUS
MaxUs == 2
\* delay steps of one twim_waitUS call that are followed
MaxSteps == 3
\* slave interrupts with an arbitrary status snapshot in one run of SpecRaw
MaxRaw == 1
\* slave events the external masters of both buses cause in one run of
\* SpecBoth
MaxBoth == 5
MaxAbortEv == 2

\* ------------------------------------------------------- program constants
BUFF_SIZE == 32
fromHost_addr == 42
fromApp_addr == 41
BLINK_DELAY == 1000
LAST_OP_A == 0
LAST_OP_R == 1
LAST_OP_W == 2
\* SCTRLB commands of s_ack / s_nackComplete
S_ACK == 3
S_NACKCOMPLETE == 6

Buses == {0, 1}
\* data bytes an external master writes (7 is the command byte)
Bytes == {7, 1}
\* the only byte written in the long bursts of SpecBurst
BurstBytes == {1}
\* 7-bit addresses an external master may put on a bus
BusAddrs == {0, fromApp_addr, fromHost_addr}
Idx == 0 .. (BUFF_SIZE - 1)
ZeroBuf == [i \in Idx |-> 0]

\* ------------------------------------------------------------- bit helpers
RECURSIVE BitAnd(_, _)
BitAnd(a, b) ==
    IF a = 0 \/ b = 0 THEN 0
    ELSE (a % 2) * (b % 2) + 2 * BitAnd(a \div 2, b \div 2)

\* slave status bits  DIF:APIF:CLKHOLD:RXACK:COLL:BUSERR:DIR:AP
DIF_DIRbm == 130
APIF_APbm == 65
RXNACKbm == 16
ERRbm == 12
DIF_R == 130
DIF_W == 128
APIF_ADDR == 65
APIF_STOP == 64

isDataRead(v) == BitAnd(v, DIF_DIRbm) = DIF_R
isDataWrite(v) == BitAnd(v, DIF_DIRbm) = DIF_W
isAddress(v) == BitAnd(v, APIF_APbm) = APIF_ADDR
isStop(v) == BitAnd(v, APIF_APbm) = APIF_STOP
\* faulty variant of isRxNack: the wrong bit is tested
isRxNackWrongBit(v) == BitAnd(v, 1) # 0
isRxNack(v) == BitAnd(v, RXNACKbm) # 0
isError(v) == BitAnd(v, ERRbm) # 0

\* faulty variant of the classification: stop is looked at before error
IrqStateStopFirst(s) ==
    IF isStop(s) THEN "STOPPED"
    ELSE IF isError(s) THEN "ERROR"
    ELSE IF isAddress(s) THEN "ADDRESSED"
    ELSE IF isDataRead(s) THEN "MREAD"
    ELSE IF isDataWrite(s) THEN "MWRITE"
    ELSE "ERROR"

\* the state the slave interrupt handler delivers for status snapshot s
IrqState(s) ==
    IF isError(s) THEN "ERROR"
    ELSE IF isStop(s) THEN "STOPPED"
    ELSE IF isAddress(s) THEN "ADDRESSED"
    ELSE IF isDataRead(s) THEN "MREAD"
    ELSE IF isDataWrite(s) THEN "MWRITE"
    ELSE "ERROR"

VARIABLES
    \* --- slave hardware registers and engine state, per bus
    SDATA,              \* TWIn.SDATA
    SADDR,              \* TWIn.SADDR (address<<1 | gencall enable)
    SCTRLA,             \* TWIn.SCTRLA: 0, or 225 = interrupts 0xE0 | ENABLE
    SCTRLB,             \* last command written to TWIn.SCTRLB
    twis_isrCallback_,  \* twis_isrCallback_ / twi1s_isrCallback_
    s_lastAddress,      \* s_lastAddress_ / s1_lastAddress_
    is1st,              \* the handlers' static is1st
    \* --- callback state, per bus (twi0... / twi1...)
    RxBuffer, RxBufferLength,
    TxBuffer, TxBufferLength, TxBufferIndex,
    last_op, slave_status_cpy,
    \* --- diagnostic print job and relay record (shared)
    printJob,           \* printing, printOp1*, printOp2*, print_slave_addr
    got_twi0, got_twi1,
    got_twi0_buf, got_twi0BufferLength, got_twi0BufferIndex,
    \* --- main loop
    pc,                 \* position of main()
    debug_print_done,
    SETAPP4_UART, SETAPP4_UPDI,   \* routing lines, TRUE = LOGIC_LEVEL_HIGH
    blink_delay,
    IE,                 \* global interrupt enable (sei / cli)
    \* --- environment and history
    hw,                 \* what the external master of a bus may do next
    sess,               \* events of the current (or just finished) session
    oob,                \* a store landed outside a 32-byte buffer
    nev,                \* slave events the external masters have caused
    nsess,              \* sessions the external master of each bus has started
    prev,               \* how the last session of each bus ended, and what it wrote
    last_ev,            \* the event the last interrupt of each bus delivered
    mon_rec,            \* fragments i2c_monitor wrote since the last header
    iter_cmd,           \* relay command pending when the loop iteration began, or -1
    \* --- master engine (TWI0)
    MCTRLA,             \* [en, irq]: ENABLE bit and RWIEN bits
    MADDR,              \* [addr, rw]
    MCTRLB,             \* last command written to MCTRLB
    MDATA,              \* last byte written to MDATA
    txbuf_, txbufEnd_, txbuf2_, txbuf2End_, rxbuf_, rxbufEnd_,
    twi_lastResult_,
    twim_isrCallback_,
    rmem,               \* content of the caller's read buffer
    mpc, wait_us, wait_ret,   \* caller position, twim_waitUS countdown/result
    wait_call,          \* argument and delay steps of the twim_waitUS call
    m_req,              \* the request the transaction in flight was started by
    m_hist,             \* status snapshots handled since that start
    m_sent,             \* bytes written to MDATA since that start
    m_log,              \* what the last engine call or handler did
    init_call           \* the last call of twis_init / twi1s_init

slaveVars == <<SDATA, SADDR, SCTRLA, SCTRLB, twis_isrCallback_, s_lastAddress,
               is1st, init_call>>
cbVars == <<RxBuffer, RxBufferLength, TxBuffer, TxBufferLength, TxBufferIndex,
            last_op, slave_status_cpy>>
relayVars == <<got_twi0, got_twi1, got_twi0_buf, got_twi0BufferLength,
               got_twi0BufferIndex>>
mainVars == <<pc, debug_print_done, SETAPP4_UART, SETAPP4_UPDI,
              blink_delay, IE>>
envVars == <<hw, sess, oob, nev, nsess, prev, last_ev, mon_rec>>
masterVars == <<MCTRLA, MADDR, MCTRLB, MDATA, txbuf_, txbufEnd_, txbuf2_,
                txbuf2End_, rxbuf_, rxbufEnd_, twi_lastResult_,
                twim_isrCallback_, rmem, mpc, wait_us, wait_call, wait_ret,
                m_req,
                m_hist, m_sent, m_log>>
vars == <<slaveVars, cbVars, printJob, relayVars, mainVars, envVars,
          iter_cmd, masterVars>>

\* ------------------------------------------------------ external routines
\* timers library (not part of the sources at hand): milliseconds to timer
\* ticks, kept uninterpreted; distinct arguments give distinct tick counts
cnvrt_milli(ms) == [ticks_of_ms |-> ms]

\* --------------------------------------------------------- buffer helpers
\* faulty variant of the copy loop: stops one element early
CopyIntoShort(to, from, n) == [i \in Idx |-> IF i < n - 1 THEN from[i] ELSE to[i]]
\* for(i = 0; i < n; ++i) to[i] = from[i];
CopyInto(to, from, n) == [i \in Idx |-> IF i < n THEN from[i] ELSE to[i]]
\* buf[i] = v; a store past the array leaves the array alone (and is flagged)
Store(buf, i, v) == IF i \in Idx THEN [buf EXCEPT ![i] = v] ELSE buf

\* ------------------------------------------------------------- print job
\* (printOp1BufferIndex >= printOp1BufferLength) &&
\* (printOp2BufferIndex >= printOp2BufferLength) && uart1_availableForWrite()
PrintingPossible(pj, room) ==
    /\ pj.printOp1BufferIndex >= pj.printOp1BufferLength
    /\ pj.printOp2BufferIndex >= pj.printOp2BufferLength
    /\ room

print_Op1_buf_if_possible(pj, rw, buf, bufsize, lastAddress) ==
    IF pj.printing
    THEN [pj EXCEPT !.printOp1BufferLength = bufsize,
                    !.printOp1BufferIndex = 0,
                    !.printOp1Buffer = CopyInto(@, buf, bufsize),
                    !.printOp1rw = rw,
                    !.print_slave_addr = lastAddress]
    ELSE pj

print_Op2_buf_if_possible(pj, rw, buf, bufsize, lastAddress) ==
    IF pj.printing
    THEN LET filled == [pj EXCEPT !.printOp2BufferLength = bufsize,
                                  !.printOp2BufferIndex = 0,
                                  !.printOp2Buffer = CopyInto(@, buf, bufsize),
                                  !.printOp2rw = rw]
         IN  IF pj.print_slave_addr # lastAddress
             THEN [filled EXCEPT !.printOp2BufferLength = 0,
                                 !.printOp1BufferLength = 0,
                                 !.printing = FALSE]
             ELSE filled
    ELSE pj

\* ---------------------------------------------------------- the callbacks
\* which registers and addresses the callback of bus b uses
OwnAddr(b) == IF b = 0 THEN fromHost_addr ELSE fromApp_addr
\* both callbacks read and write the data register through twis_read() and
\* twis_write(), the accessors of TWI0
DataReg(b) == 0
\* twisCallback and twi1sCallback both ask twis_lastAddress() in STOPPED
StopAddrReg(b) == 0

\* the callback's view of the state when it is entered: la is the engine's
\* last address array, sd the data registers
Entry(b, la, sd) ==
    [ret |-> TRUE,
     rx |-> RxBuffer[b], rxlen |-> RxBufferLength[b],
     tx |-> TxBuffer[b], txlen |-> TxBufferLength[b], txidx |-> TxBufferIndex[b],
     lastop |-> last_op[b], status |-> slave_status_cpy[b],
     pj |-> printJob,
     got |-> got_twi0, gotbuf |-> got_twi0_buf,
     gotlen |-> got_twi0BufferLength, gotidx |-> got_twi0BufferIndex,
     sd |-> sd, oob |-> oob, stored |-> -1, wrote |-> -1]

\* faulty variant of the move: the receive length is not reset
MoveRxToTxKeepRx(e) ==
    [e EXCEPT !.tx = CopyInto(@, e.rx, e.rxlen),
              !.txlen = e.rxlen,
              !.txidx = 0]
\* move_buffer(RxBuffer, &RxBufferLength, TxBuffer, &TxBufferLength,
\*             &TxBufferIndex)
MoveRxToTx(e) ==
    [e EXCEPT !.tx = CopyInto(@, e.rx, e.rxlen),
              !.txlen = e.rxlen,
              !.rxlen = 0,
              !.txidx = 0]

CbAddressed(b, s, la, sd, room) ==
    LET e == Entry(b, la, sd)
        e1 == [e EXCEPT !.ret = (la[b] = OwnAddr(b)), !.status = s]
        pj1 == [e.pj EXCEPT !.printing = PrintingPossible(e.pj, room)]
        e2 == IF e.rxlen # 0
              THEN MoveRxToTx(
                     [e1 EXCEPT
                        !.pj = print_Op1_buf_if_possible(pj1, e.lastop, e.rx,
                                                         e.rxlen, la[b])])
              ELSE e1
    IN  [e2 EXCEPT !.lastop = LAST_OP_A]

\* faulty variant of MREAD: the transmit index is not advanced
CbMReadStuck(b, s, la, sd, room) ==
    LET e == Entry(b, la, sd)
        e1 == IF e.txidx < e.txlen
              THEN [e EXCEPT !.sd[DataReg(b)] = e.tx[e.txidx],
                             !.wrote = e.tx[e.txidx],
                             !.ret = TRUE]
              ELSE e
    IN  [e1 EXCEPT !.lastop = LAST_OP_R]

\* faulty variant of MREAD: with the transmit buffer exhausted the callback
\* returns false
CbMReadRefuse(b, s, la, sd, room) ==
    LET e == Entry(b, la, sd)
        e1 == IF e.txidx < e.txlen
              THEN [e EXCEPT !.sd[DataReg(b)] = e.tx[e.txidx],
                             !.wrote = e.tx[e.txidx],
                             !.txidx = (@ + 1) % 256,
                             !.ret = TRUE]
              ELSE [e EXCEPT !.ret = FALSE]
    IN  [e1 EXCEPT !.lastop = LAST_OP_R]

CbMRead(b, s, la, sd, room) ==
    LET e == Entry(b, la, sd)
        e1 == IF e.txidx < e.txlen
              THEN [e EXCEPT !.sd[DataReg(b)] = e.tx[e.txidx],
                             !.wrote = e.tx[e.txidx],
                             !.txidx = (@ + 1) % 256,
                             !.ret = TRUE]
              ELSE e
    IN  [e1 EXCEPT !.lastop = LAST_OP_R]

\* faulty variants of the capacity test: one byte too many, one too few
AcceptMoreLoose(newlen) == newlen <= BUFF_SIZE
AcceptMoreEarly(newlen) == newlen < BUFF_SIZE - 1
\* ret = (++RxBufferLength < BUFF_SIZE)
AcceptMore(newlen) == newlen < BUFF_SIZE

CbMWrite(b, s, la, sd, room) ==
    LET e == Entry(b, la, sd)
        n == (e.rxlen + 1) % 256
    IN  [e EXCEPT !.rx = Store(@, e.rxlen, sd[DataReg(b)]),
                  !.oob = @ \/ (e.rxlen \notin Idx),
                  !.stored = e.rxlen,
                  !.rxlen = n,
                  !.ret = AcceptMore(n),
                  !.lastop = LAST_OP_W]

\* faulty variant of the hand-off to the relay: the new-data flag is forgotten
RelayRecordNoFlag(e) ==
    [e EXCEPT !.gotbuf = CopyInto(@, e.tx, e.txlen),
              !.gotlen = e.txlen,
              !.txlen = 0,
              !.gotidx = 0]
\* move_buffer(twi0TxBuffer, &twi0TxBufferLength, got_twi0_buf,
\*             &got_twi0BufferLength, &got_twi0BufferIndex); got_twi0 = 1;
RelayRecord(e) ==
    [e EXCEPT !.gotbuf = CopyInto(@, e.tx, e.txlen),
              !.gotlen = e.txlen,
              !.txlen = 0,
              !.gotidx = 0,
              !.got = 1]

\* faulty variant of the end of STOPPED: only the receive length is reset
EndSessionRxOnly(e) == [e EXCEPT !.rxlen = 0, !.ret = TRUE]
\* twi0TxBufferLength = 0; twi0RxBufferLength = 0; ret = true;
EndSession(e) == [e EXCEPT !.txlen = 0, !.rxlen = 0, !.ret = TRUE]

CbStopped(b, s, la, sd, room) ==
    LET e == Entry(b, la, sd)
        pjp == [e.pj EXCEPT !.printing = PrintingPossible(e.pj, room)]
        e1 ==
          IF e.txlen # 0
          THEN IF e.rxlen # 0
               THEN \* write+write
                    [e EXCEPT !.pj = print_Op2_buf_if_possible(
                                 e.pj, e.lastop, e.rx, e.rxlen, la[StopAddrReg(b)])]
               ELSE \* write+read
                    LET p2 == print_Op2_buf_if_possible(
                                 e.pj, e.lastop, e.tx, e.txlen, la[StopAddrReg(b)])
                    IN  IF b = 0
                        THEN RelayRecord([e EXCEPT !.pj = p2])
                        ELSE [e EXCEPT !.pj = p2]
          ELSE IF e.rxlen # 0
          THEN \* stop after a plain write
               [e EXCEPT !.pj = print_Op1_buf_if_possible(
                            pjp, e.lastop, e.rx, e.rxlen, la[StopAddrReg(b)])]
          ELSE IF e.lastop = LAST_OP_A
          THEN \* ping: printed at once, with fromHost_addr on both buses
               [e EXCEPT !.pj = pjp]
          ELSE e
    IN  EndSession(e1)

CbError(b, s, la, sd, room) == [Entry(b, la, sd) EXCEPT !.ret = FALSE]

\* twisCallback (b = 0) / twi1sCallback (b = 1)
Callback(b, state, s, la, sd, room) ==
    CASE state = "ADDRESSED" -> CbAddressed(b, s, la, sd, room)
      [] state = "MREAD"     -> CbMRead(b, s, la, sd, room)
      [] state = "MWRITE"    -> CbMWrite(b, s, la, sd, room)
      [] state = "STOPPED"   -> CbStopped(b, s, la, sd, room)
      [] OTHER               -> CbError(b, s, la, sd, room)

\* ------------------------------------------------------- slave environment
\* status snapshots the slave hardware raises an interrupt with
ST_ADDR_W == 97
ST_ADDR_R == 99
ST_DATA_W == 160
ST_DATA_R == 162
ST_DATA_R_NACK == 178
ST_STOP == 64
ST_BUSERR == 68
ST_COLL == 168

Last(q) == q[Len(q)]
Kind(ev) == ev[1]
NumPhases(q) == Cardinality({i \in DOMAIN q : Kind(q[i]) = "A"})
\* data events since the last ADDRESSED of q
RECURSIVE PhaseLen(_)
PhaseLen(q) ==
    IF q = <<>> \/ Kind(Last(q)) = "A" THEN 0
    ELSE 1 + PhaseLen(SubSeq(q, 1, Len(q) - 1))
\* the session of q is over: the next ADDRESSED starts a new one
Ended(q) == q = <<>> \/ Kind(Last(q)) = "E"
\* index of the last ADDRESSED of q (0: none)
LastA(q) ==
    LET as == {i \in DOMAIN q : Kind(q[i]) = "A"}
    IN  IF as = {} THEN 0 ELSE CHOOSE i \in as : \A j \in as : j <= i
\* the bytes of the MASTER_WRITE events q[from + 1 .. to]
RECURSIVE WBytes(_, _, _)
WBytes(q, from, to) ==
    IF to <= from THEN <<>>
    ELSE WBytes(q, from, to - 1)
         \o (IF Kind(q[to]) = "W" THEN <<q[to][2]>> ELSE <<>>)
\* what a session that ends with history q leaves behind: how it ended, the
\* address of its last phase and the bytes that phase wrote
NoSession == [end |-> "none", addr |-> -1, bytes |-> <<>>]
Summary(q, end) ==
    IF LastA(q) = 0 THEN [NoSession EXCEPT !.end = end]
    ELSE [end |-> end, addr |-> q[LastA(q)][2],
          bytes |-> WBytes(q, LastA(q), Len(q))]

\* s_gencall: SADDR = (addr<<1)|1 matches addr and, bit 0 being set, the
\* general-call address 0
HwMatches(b, a) ==
    /\ SCTRLA[b] % 2 = 1
    /\ \/ a = SADDR[b] \div 2
       \/ a = 0 /\ SADDR[b] % 2 = 1

\* what the external master of bus b can make the hardware report next, as
\* [s: status snapshot, d: byte latched in SDATA or -1]; env bounds it
HwEvents(b, env) ==
    LET q == sess[b]
        more == nev < env.total
    IN  {[s |-> IF dir = 0 THEN ST_ADDR_W ELSE ST_ADDR_R, d |-> 2 * a + dir] :
            <<a, dir>> \in {x \in env.addrs[b] \X env.dirs[b] :
                /\ HwMatches(b, x[1])
                /\ nev < env.total
                /\ \/ (hw[b] = "idle" \/ Ended(q)) /\ nsess[b] < env.sessions
                   \/ ~Ended(q) /\ NumPhases(q) < env.phases[b]}}
        \cup {[s |-> ST_DATA_W, d |-> v] :
                v \in {x \in (IF PhaseLen(q) = 0 THEN env.bytes ELSE env.rest) :
                          hw[b] = "rx" /\ more /\ PhaseLen(q) < env.data}}
        \cup {[s |-> st, d |-> -1] :
                st \in {x \in {ST_DATA_R, ST_DATA_R_NACK} :
                          hw[b] = "tx" /\ more /\ PhaseLen(q) < env.data}}
        \cup {[s |-> ST_STOP, d |-> -1] : x \in {y \in {0} : hw[b] # "idle"}}
        \cup {[s |-> st, d |-> -1] :
                st \in {x \in env.errs[b] : hw[b] \in {"rx", "tx"} /\ more}}

\* ------------------------------------------------- slave interrupt handler
\* ISR(TWI0_TWIS_vect) (b = 0) / ISR(TWI1_TWIS_vect) (b = 1) on status
\* snapshot s, the hardware having latched d in SDATA; room is what
\* uart1_availableForWrite() answers inside the callback
\* faulty variant: the address byte is recorded with its direction bit
AddrOfNoShift(v) == v
\* s_lastAddress_ = s_read()>>1
AddrOf(v) == v \div 2

\* faulty variant: the not-acknowledge counts on the first read as well
ReadDoneAlways(first, nacked) == nacked
\* if( is1st ) is1st = false; else done = nacked;
ReadDone(first, nacked) == IF first THEN FALSE ELSE nacked

TWIS_vect(b, s, d, room) ==
    \E state \in {IrqState(s)}, nacked \in {isRxNack(s)} :
    LET sd == IF d >= 0 THEN [SDATA EXCEPT ![b] = d] ELSE SDATA
        la == IF state = "ADDRESSED"
              THEN [s_lastAddress EXCEPT ![b] = AddrOf(sd[b])]
              ELSE s_lastAddress
        done0 == CASE state = "ADDRESSED" -> FALSE
                   [] state = "MREAD" -> ReadDone(is1st[b], nacked)
                   [] state = "MWRITE" -> FALSE
                   [] OTHER -> TRUE
        dir == sd[b] % 2
    IN  \E r \in {Callback(b, state, s, la, sd, room)} :
        LET done == done0 \/ ~r.ret
            ev == CASE state = "ADDRESSED" -> <<"A", la[b], dir, ~done, s, r.ret>>
                    [] state = "MWRITE" -> <<"W", sd[b], r.stored, ~done, s, r.ret>>
                    [] state = "MREAD" ->
                         <<"R", IF DataReg(b) = b THEN r.wrote ELSE -1,
                           IF nacked THEN 1 ELSE 0, ~done, s, r.ret>>
                    [] state = "STOPPED" -> <<"S", 0, 0, ~done, s, r.ret>>
                    [] OTHER -> <<"E", 0, 0, ~done, s, r.ret>>
        IN
        /\ s_lastAddress' = la
        /\ is1st' = CASE state = "ADDRESSED" -> [is1st EXCEPT ![b] = TRUE]
                      [] state = "MREAD" -> [is1st EXCEPT ![b] = FALSE]
                      [] OTHER -> is1st
        /\ SCTRLB' = [SCTRLB EXCEPT ![b] = IF done THEN S_NACKCOMPLETE ELSE S_ACK]
        /\ SDATA' = r.sd
        /\ RxBuffer' = [RxBuffer EXCEPT ![b] = r.rx]
        /\ RxBufferLength' = [RxBufferLength EXCEPT ![b] = r.rxlen]
        /\ TxBuffer' = [TxBuffer EXCEPT ![b] = r.tx]
        /\ TxBufferLength' = [TxBufferLength EXCEPT ![b] = r.txlen]
        /\ TxBufferIndex' = [TxBufferIndex EXCEPT ![b] = r.txidx]
        /\ last_op' = [last_op EXCEPT ![b] = r.lastop]
        /\ slave_status_cpy' = [slave_status_cpy EXCEPT ![b] = r.status]
        /\ printJob' = r.pj
        /\ got_twi0' = r.got
        /\ got_twi0_buf' = r.gotbuf
        /\ got_twi0BufferLength' = r.gotlen
        /\ got_twi0BufferIndex' = r.gotidx
        /\ oob' = r.oob
        /\ hw' = [hw EXCEPT ![b] =
                    CASE state = "STOPPED" -> "idle"
                      [] state = "ERROR" -> "wait"
                      [] done -> "wait"
                      [] state = "ADDRESSED" -> IF dir = 0 THEN "rx" ELSE "tx"
                      [] OTHER -> @]
        /\ nev' = nev + 1
        /\ prev' = CASE state = "STOPPED" -> [prev EXCEPT ![b] = Summary(sess[b], "S")]
                     [] state = "ERROR" -> [prev EXCEPT ![b] = Summary(sess[b], "E")]
                     [] OTHER -> prev
        /\ nsess' = IF state = "ADDRESSED" /\ (hw[b] = "idle" \/ Ended(sess[b]))
                     THEN [nsess EXCEPT ![b] = @ + 1] ELSE nsess
        /\ last_ev' = [last_ev EXCEPT ![b] = ev]
        /\ sess' = [sess EXCEPT ![b] =
                    CASE state = "STOPPED" -> <<>>
                      [] state = "ADDRESSED" /\ (hw[b] = "idle" \/ Ended(@)) -> <<ev>>
                      [] OTHER -> Append(@, ev)]
        /\ UNCHANGED <<SADDR, SCTRLA, twis_isrCallback_, init_call, got_twi1,
                       mainVars,
                       iter_cmd, masterVars, mon_rec>>

\* one slave interrupt of bus b, in the environment env
SlaveISR(b, env) ==
    /\ IE
    /\ BitAnd(SCTRLA[b], 224) # 0
    /\ twis_isrCallback_[b] # "null"
    /\ \E e \in HwEvents(b, env), room \in BOOLEAN :
          TWIS_vect(b, e.s, e.d, room)

\* one slave interrupt of bus b with an arbitrary status snapshot: the
\* handler's classification is applied to every value of the status register
RawStatuses == 0 .. 255
RawData == {2 * fromHost_addr}
SlaveISRRaw(b) ==
    /\ IE
    /\ BitAnd(SCTRLA[b], 224) # 0
    /\ twis_isrCallback_[b] # "null"
    /\ nev < MaxRaw
    /\ \E s \in RawStatuses, d \in RawData, room \in BOOLEAN :
          TWIS_vect(b, s, d, room)

\* ------------------------------------------------------------------- setup
\* faulty variant of twis_init: the callback is not tested
twis_initNoTest(sr, b, addr, cb) ==
    [sr EXCEPT !.cb[b] = cb,
               !.SADDR[b] = 2 * addr + 1,
               !.SCTRLA[b] = 225]

\* twis_init / twi1s_init on bus b, on the registers
\* sr = [SCTRLA, SADDR, cb]: nothing at all for a null callback
twis_init(sr, b, addr, cb) ==
    IF cb = "null"
    THEN sr
    ELSE [sr EXCEPT !.cb[b] = cb,
                    !.SADDR[b] = 2 * addr + 1,
                    \* twis_off() clears the enables, s_irqAllOn(); s_on()
                    !.SCTRLA[b] = 225]

\* the callback setup() gives to bus b
CallbackOf(b) == IF b = 0 THEN "twisCallback" ELSE "twi1sCallback"

\* twis_init(addr, cb) / twi1s_init(addr, cb) called from the main context
\* with a callback or with a null pointer
SlaveInit ==
    /\ pc = "top" /\ mpc = "idle"
    /\ \E b \in Buses, addr \in {fromApp_addr, fromHost_addr} :
       \E cb \in {"null", CallbackOf(b)} :
          LET sr == twis_init([SCTRLA |-> SCTRLA, SADDR |-> SADDR,
                               cb |-> twis_isrCallback_], b, addr, cb)
          IN  /\ twis_isrCallback_' = sr.cb
              /\ SADDR' = sr.SADDR
              /\ SCTRLA' = sr.SCTRLA
              /\ init_call' = <<b, addr, cb>>
    /\ UNCHANGED <<SDATA, SCTRLB, s_lastAddress, is1st, cbVars, printJob,
                   relayVars, mainVars, envVars, iter_cmd, masterVars>>

\* setup(): ioWrite(MCU_IO_MGR_SETAPP4_UART, LOGIC_LEVEL_HIGH)
SetupUart ==
    /\ pc = "setup_uart"
    /\ SETAPP4_UART' = TRUE
    /\ pc' = "setup_updi"
    /\ UNCHANGED <<slaveVars, cbVars, printJob, relayVars, debug_print_done,
                   SETAPP4_UPDI, blink_delay, IE, envVars, iter_cmd,
                   masterVars>>

\* setup(): ioWrite(MCU_IO_MGR_SETAPP4_UPDI, LOGIC_LEVEL_LOW)
SetupUpdi ==
    /\ pc = "setup_updi"
    /\ SETAPP4_UPDI' = FALSE
    /\ pc' = "setup_twi"
    /\ UNCHANGED <<slaveVars, cbVars, printJob, relayVars, debug_print_done,
                   SETAPP4_UART, blink_delay, IE, envVars, iter_cmd,
                   masterVars>>

\* setup(): twis_init(fromHost_addr, twisCallback);
\*          twi1s_init(fromHost_addr, twi1sCallback); sei()
SetupTwi ==
    /\ pc = "setup_twi"
    /\ LET sr0 == [SCTRLA |-> SCTRLA, SADDR |-> SADDR, cb |-> twis_isrCallback_]
           sr1 == twis_init(sr0, 0, fromHost_addr, "twisCallback")
           sr2 == twis_init(sr1, 1, fromHost_addr, "twi1sCallback")
       IN  /\ twis_isrCallback_' = sr2.cb
           /\ SADDR' = sr2.SADDR
           /\ SCTRLA' = sr2.SCTRLA
    /\ init_call' = <<1, fromHost_addr, "twi1sCallback">>
    /\ IE' = TRUE
    /\ pc' = "setup_vars"
    /\ UNCHANGED <<SDATA, SCTRLB, s_lastAddress, is1st, cbVars, printJob,
                   relayVars, debug_print_done, SETAPP4_UART,
                   SETAPP4_UPDI, blink_delay, envVars, iter_cmd, masterVars>>

\* setup(): blink_delay = cnvrt_milli(BLINK_DELAY); got_a = got_twi0 = got_twi1 = 0
SetupVars ==
    /\ pc = "setup_vars"
    /\ blink_delay' = cnvrt_milli(BLINK_DELAY)
    /\ got_twi0' = 0
    /\ got_twi1' = 0
    /\ pc' = "top"
    /\ UNCHANGED <<slaveVars, cbVars, printJob, got_twi0_buf,
                   got_twi0BufferLength, got_twi0BufferIndex,
                   debug_print_done, SETAPP4_UART, SETAPP4_UPDI, IE, envVars,
                   iter_cmd, masterVars>>

\* --------------------------------------------------------------- main loop
\* i2c_monitor(): one call, as [dpd, pj, out]; out lists the fragments the
\* call writes to the stream, a slot byte with the cursor it was read at
i2c_monitor(dpd, pj) ==
    LET chain ==
          CASE dpd = 0 ->
                 IF pj.printOp1BufferIndex < pj.printOp1BufferLength
                 THEN [dpd |-> 1, pj |-> pj, ret |-> FALSE,
                       out |-> <<<<"header", 0>>>>]
                 ELSE [dpd |-> 0, pj |-> pj, ret |-> TRUE, out |-> <<>>]
            [] dpd = 1 ->
                 [dpd |-> 2, pj |-> pj, ret |-> FALSE,
                  out |-> <<<<"status", 0>>>>]
            [] dpd = 2 ->
                 [dpd |-> 3, pj |-> pj, ret |-> FALSE,
                  out |-> <<<<"len", 0>>>>]
            [] dpd = 3 ->
                 IF pj.printOp1BufferIndex >= pj.printOp1BufferLength
                 THEN [dpd |-> 4, pj |-> pj, ret |-> FALSE, out |-> <<>>]
                 ELSE IF pj.printOp1rw \in {LAST_OP_W, LAST_OP_R}
                 THEN [dpd |-> 3, ret |-> FALSE,
                       pj |-> [pj EXCEPT !.printOp1BufferIndex = (@ + 1) % 256],
                       out |-> <<<<"op1", pj.printOp1BufferIndex>>>>]
                 ELSE [dpd |-> 3, pj |-> pj, ret |-> FALSE, out |-> <<>>]
            [] dpd = 4 ->
                 IF pj.printOp2BufferIndex >= pj.printOp2BufferLength
                 THEN [dpd |-> 5, pj |-> pj, ret |-> FALSE, out |-> <<>>]
                 ELSE IF pj.printOp2rw \in {LAST_OP_W, LAST_OP_R}
                 THEN [dpd |-> 4, ret |-> FALSE,
                       pj |-> [pj EXCEPT !.printOp2BufferIndex = (@ + 1) % 256],
                       out |-> <<<<"op2", pj.printOp2BufferIndex>>>>]
                 ELSE [dpd |-> 4, pj |-> pj, ret |-> FALSE, out |-> <<>>]
            [] OTHER -> [dpd |-> dpd, pj |-> pj, ret |-> FALSE, out |-> <<>>]
    IN  IF ~chain.ret /\ chain.dpd = 5
        THEN [dpd |-> 0, pj |-> chain.pj,
              out |-> Append(chain.out, <<"trailer", 0>>)]
        ELSE [dpd |-> chain.dpd, pj |-> chain.pj, out |-> chain.out]

\* the fragments since the last header: a header written after a trailer
\* (or first of all) opens a new record
Recorded(rec, out) ==
    IF out = <<>> THEN rec
    ELSE IF out[1][1] = "header" /\ (rec = <<>> \/ rec[Len(rec)][1] = "trailer")
    THEN out
    ELSE rec \o out

\* top of while(1): the uart1_available() block, where only '$' matters
\* (got_a and blink() touch the LED and its timer alone, which are not
\* modelled); iter_cmd notes the relay command pending as the iteration starts
MainInput ==
    /\ pc = "top"
    /\ \E c \in {"none", "$"} :
         pc' = IF c = "$" THEN "abort_uart" ELSE "poll"
    /\ iter_cmd' = IF got_twi0 # 0 THEN got_twi0_buf[0] ELSE -1
    /\ UNCHANGED <<slaveVars, cbVars, printJob, relayVars, debug_print_done,
                   SETAPP4_UART, SETAPP4_UPDI, blink_delay, IE, envVars,
                   masterVars>>

\* if(uart1_availableForWrite()) { i2c_monitor(); ... } else the iteration ends
MainPoll ==
    /\ pc = "poll"
    /\ \E room \in BOOLEAN :
         IF room
         THEN \E m \in {i2c_monitor(debug_print_done, printJob)} :
                  /\ debug_print_done' = m.dpd
                  /\ printJob' = m.pj
                  /\ mon_rec' = Recorded(mon_rec, m.out)
                  /\ pc' = "relay"
                  /\ UNCHANGED iter_cmd
         ELSE /\ pc' = "top"
              /\ iter_cmd' = -1
              /\ UNCHANGED <<debug_print_done, printJob, mon_rec>>
    /\ UNCHANGED <<slaveVars, cbVars, relayVars, SETAPP4_UART,
                   SETAPP4_UPDI, blink_delay, IE, hw, sess, oob, nev, nsess,
                   prev, last_ev, masterVars>>

\* if (got_twi1) got_twi1 = 0; if (got_twi0) { if (got_twi0_buf[0] == 7) ...
MainRelay ==
    /\ pc = "relay"
    /\ got_twi1' = 0
    /\ pc' = IF got_twi0 # 0
             THEN IF got_twi0_buf[0] = 7 THEN "updi_uart" ELSE "uart_uart"
             ELSE "top"
    /\ iter_cmd' = IF got_twi0 # 0 THEN iter_cmd ELSE -1
    /\ UNCHANGED <<slaveVars, cbVars, printJob, got_twi0, got_twi0_buf,
                   got_twi0BufferLength, got_twi0BufferIndex,
                   debug_print_done, SETAPP4_UART, SETAPP4_UPDI,
                   blink_delay, IE, envVars, masterVars>>

\* ioWrite(line, level) of the relay branches and abort_safe
LineStep(at, to, uart, updi) ==
    /\ pc = at
    /\ SETAPP4_UART' = uart
    /\ SETAPP4_UPDI' = updi
    /\ pc' = to
    /\ UNCHANGED <<slaveVars, cbVars, printJob, relayVars, debug_print_done,
                   IE, envVars, iter_cmd, masterVars>>

\* command 7: ioWrite(UART, LOW); then ioWrite(UPDI, HIGH) and
\* blink_delay = cnvrt_milli(BLINK_DELAY/4)
\* faulty variant: half the period
UpdiBlinkHalf == BLINK_DELAY \div 2
UpdiBlinkMs == BLINK_DELAY \div 4
UpdiModeUart ==
    /\ LineStep("updi_uart", "updi_updi", FALSE, SETAPP4_UPDI)
    /\ UNCHANGED blink_delay
UpdiModeUpdi ==
    /\ LineStep("updi_updi", "clear", SETAPP4_UART, TRUE)
    /\ blink_delay' = cnvrt_milli(UpdiBlinkMs)

\* any other command: ioWrite(UART, HIGH); then ioWrite(UPDI, LOW) and
\* blink_delay = cnvrt_milli(BLINK_DELAY)
UartBlinkMs == BLINK_DELAY
UartModeUart ==
    /\ LineStep("uart_uart", "uart_updi", TRUE, SETAPP4_UPDI)
    /\ UNCHANGED blink_delay
UartModeUpdi ==
    /\ LineStep("uart_updi", "clear", SETAPP4_UART, FALSE)
    /\ blink_delay' = cnvrt_milli(UartBlinkMs)

\* got_twi0 = 0
MainClear ==
    /\ pc = "clear"
    /\ got_twi0' = 0
    /\ pc' = "top"
    /\ iter_cmd' = -1
    /\ UNCHANGED <<slaveVars, cbVars, printJob, got_twi1, got_twi0_buf,
                   got_twi0BufferLength, got_twi0BufferIndex,
                   debug_print_done, SETAPP4_UART, SETAPP4_UPDI,
                   blink_delay, IE, envVars, masterVars>>

\* ----------------------------------------------------------- master engine
\* MCTRLB commands
M_ACK == 0
M_READ == 2
M_NACKSTOP == 7
\* MSTATUS snapshots: RIF7|WIF6|CLKHOLD5|RXACK4|ARBLOST3|BUSERR2|BUSSTATE1:0
ANYERR == 12
READOK == 162
WRITEOK == 98
MST_WNACK == 114
MST_ARBLOST == 72
MST_BUSERR == 68

\* bytes a target returns to a master read
RBytes == {5}
\* a pointer is <<buffer, offset>>; the null pointer
NULL == <<"null", 0>>
PtrLess(p, q) == p[2] < q[2]
\* *p of a caller's write buffer
WMem(p) == (IF p[1] = "w1" THEN 16 ELSE 32) + p[2]

\* the engine's variables as one value, so that calls compose
MCur ==
    [MCTRLA |-> MCTRLA, MADDR |-> MADDR, MCTRLB |-> MCTRLB, MDATA |-> MDATA,
     txbuf_ |-> txbuf_, txbufEnd_ |-> txbufEnd_, txbuf2_ |-> txbuf2_,
     txbuf2End_ |-> txbuf2End_, rxbuf_ |-> rxbuf_, rxbufEnd_ |-> rxbufEnd_,
     twi_lastResult_ |-> twi_lastResult_, rmem |-> rmem, log |-> <<>>]

m_isBusy(m) == m.MCTRLA.irq
Busy01(m) == IF m_isBusy(m) THEN 1 ELSE 0
twim_lastResultOK(m) == m.twi_lastResult_

\* faulty variant of m_startIrq: the last result is not reset
m_startIrqKeep(m, wr) ==
    [m EXCEPT !.MCTRLB = IF wr THEN @ ELSE M_ACK,
              !.MADDR.rw = IF wr THEN 0 ELSE 1,
              !.MCTRLA.irq = TRUE,
              !.log = Append(@, <<"start", IF wr THEN 0 ELSE 1>>)]

m_startIrq(m, wr) ==
    [m EXCEPT !.MCTRLB = IF wr THEN @ ELSE M_ACK,
              !.MADDR.rw = IF wr THEN 0 ELSE 1,
              !.twi_lastResult_ = FALSE,
              !.MCTRLA.irq = TRUE,
              !.log = Append(@, <<"start", IF wr THEN 0 ELSE 1>>)]

twim_writeRead(m, wbuf, wn, rbuf, rn) ==
    m_startIrq([m EXCEPT !.txbuf_ = <<wbuf, 0>>, !.txbufEnd_ = <<wbuf, wn>>,
                         !.rxbuf_ = <<rbuf, 0>>, !.rxbufEnd_ = <<rbuf, rn>>,
                         !.txbuf2_ = NULL, !.txbuf2End_ = NULL],
               wn # 0)

twim_writeWrite(m, wbuf, wn, wbuf2, wn2) ==
    m_startIrq([m EXCEPT !.txbuf_ = <<wbuf, 0>>, !.txbufEnd_ = <<wbuf, wn>>,
                         !.txbuf2_ = <<wbuf2, 0>>, !.txbuf2End_ = <<wbuf2, wn2>>,
                         !.rxbuf_ = NULL, !.rxbufEnd_ = NULL],
               TRUE)

twim_write(m, wbuf, wn) == twim_writeRead(m, wbuf, wn, "null", 0)
twim_read(m, rbuf, rn) == twim_writeRead(m, "null", 0, rbuf, rn)

\* the requests a caller issues
Requests ==
    [op : {"writeRead"}, w : {"w1"}, wn : 0 .. MaxN, w2 : {"null"}, wn2 : {0},
     r : {"r"}, rn : 0 .. MaxN]
    \cup [op : {"writeWrite"}, w : {"w1"}, wn : 0 .. MaxN, w2 : {"w2"},
          wn2 : 0 .. MaxN, r : {"null"}, rn : {0}]
    \cup [op : {"write"}, w : {"w1"}, wn : 0 .. MaxN, w2 : {"null"}, wn2 : {0},
          r : {"null"}, rn : {0}]
    \cup [op : {"read"}, w : {"null"}, wn : {0}, w2 : {"null"}, wn2 : {0},
          r : {"r"}, rn : 0 .. MaxN]

\* variant of Issue with a busy guard in front: a request made while a
\* transaction is in flight is dropped
IssueIfIdle(m, req) ==
    IF m_isBusy(m) THEN m
    ELSE CASE req.op = "writeRead" -> twim_writeRead(m, req.w, req.wn, req.r, req.rn)
           [] req.op = "writeWrite" -> twim_writeWrite(m, req.w, req.wn, req.w2, req.wn2)
           [] req.op = "write" -> twim_write(m, req.w, req.wn)
           [] OTHER -> twim_read(m, req.r, req.rn)

Issue(m, req) ==
    CASE req.op = "writeRead" -> twim_writeRead(m, req.w, req.wn, req.r, req.rn)
      [] req.op = "writeWrite" -> twim_writeWrite(m, req.w, req.wn, req.w2, req.wn2)
      [] req.op = "write" -> twim_write(m, req.w, req.wn)
      [] OTHER -> twim_read(m, req.r, req.rn)

\* the request a completion callback of kind "restart" issues
CbReq == [op |-> "write", w |-> "w1", wn |-> 1, w2 |-> "null", wn2 |-> 0,
          r |-> "null", rn |-> 0]

\* faulty variant of m_finished: the callback runs first, the result, the
\* NACK+STOP and the interrupt disable come after it
m_finishedLate(m, tf, cb) ==
    LET m0 == IF cb = "null" THEN m
              ELSE Issue([m EXCEPT !.log = Append(@, <<"callback", 0>>)], CbReq)
    IN  [m0 EXCEPT !.twi_lastResult_ = tf,
                   !.MCTRLB = M_NACKSTOP,
                   !.MCTRLA.irq = FALSE,
                   !.log = @ \o <<<<"result", IF tf THEN 1 ELSE 0>>,
                                  <<"nackstop", 0>>, <<"irqoff", 0>>>>]

\* faulty variant of m_finished: the interrupt stays enabled
m_finishedIrqOn(m, tf, cb) ==
    LET m1 == [m EXCEPT !.twi_lastResult_ = tf,
                        !.MCTRLB = M_NACKSTOP,
                        !.log = @ \o <<<<"result", IF tf THEN 1 ELSE 0>>,
                                       <<"nackstop", 0>>>>]
    IN  IF cb = "null" THEN m1
        ELSE Issue([m1 EXCEPT !.log = Append(@, <<"callback", 0>>)], CbReq)

m_finished(m, tf, cb) ==
    LET m1 == [m EXCEPT !.twi_lastResult_ = tf,
                        !.MCTRLB = M_NACKSTOP,
                        !.MCTRLA.irq = FALSE,
                        !.log = @ \o <<<<"result", IF tf THEN 1 ELSE 0>>,
                                       <<"nackstop", 0>>, <<"irqoff", 0>>>>]
    IN  IF cb = "null" THEN m1
        ELSE Issue([m1 EXCEPT !.log = Append(@, <<"callback", 0>>)], CbReq)

\* faulty variant of the write test: only the write interrupt flag is looked at
WriteAckedLoose(s) == BitAnd(s, 64) # 0
\* if( s == WRITEOK )
WriteAcked(s) == s = WRITEOK

\* ISR(TWI0_TWIM_vect) on status snapshot s, v being what m_read() returns
TWIM_vect(m, s, v, cb) ==
    IF BitAnd(s, ANYERR) # 0 THEN m_finished(m, FALSE, cb)
    ELSE IF s = READOK
    THEN LET p == m.rxbuf_
             m1 == [m EXCEPT !.rmem = IF p[1] = "r" /\ p[2] \in DOMAIN @
                                      THEN [@ EXCEPT ![p[2]] = v] ELSE @,
                             !.rxbuf_ = <<p[1], p[2] + 1>>,
                             !.log = Append(@, <<"store", p>>)]
         IN  IF PtrLess(m1.rxbuf_, m1.rxbufEnd_)
             THEN [m1 EXCEPT !.MCTRLB = M_READ]
             ELSE m_finished(m1, TRUE, cb)
    ELSE IF WriteAcked(s)
    THEN IF PtrLess(m.txbuf_, m.txbufEnd_)
         THEN [m EXCEPT !.MDATA = WMem(m.txbuf_),
                        !.txbuf_ = <<@[1], @[2] + 1>>,
                        !.log = Append(@, <<"send", m.txbuf_>>)]
         ELSE IF PtrLess(m.txbuf2_, m.txbuf2End_)
         THEN [m EXCEPT !.MDATA = WMem(m.txbuf2_),
                        !.txbuf2_ = <<@[1], @[2] + 1>>,
                        !.log = Append(@, <<"send", m.txbuf2_>>)]
         ELSE IF m.rxbuf_ # NULL
         THEN \* m_startRead()
              [m EXCEPT !.MCTRLB = M_ACK, !.MADDR.rw = 1,
                        !.log = Append(@, <<"startRead", 0>>)]
         ELSE m_finished(m, TRUE, cb)
    ELSE m_finished(m, FALSE, cb)

\* the engine's variables take the values of m
MSet(m) ==
    /\ MCTRLA' = m.MCTRLA /\ MADDR' = m.MADDR /\ MCTRLB' = m.MCTRLB
    /\ MDATA' = m.MDATA
    /\ txbuf_' = m.txbuf_ /\ txbufEnd_' = m.txbufEnd_
    /\ txbuf2_' = m.txbuf2_ /\ txbuf2End_' = m.txbuf2End_
    /\ rxbuf_' = m.rxbuf_ /\ rxbufEnd_' = m.rxbufEnd_
    /\ twi_lastResult_' = m.twi_lastResult_
    /\ rmem' = m.rmem
    /\ m_log' = m.log

nonMaster == <<slaveVars, cbVars, printJob, relayVars, mainVars, envVars,
               iter_cmd>>

\* status snapshots the master hardware can raise an interrupt with while
\* the address register has direction bit rw
MStatuses(rw) ==
    IF rw = 0 THEN {WRITEOK, MST_WNACK, MST_ARBLOST, MST_BUSERR}
    ELSE {READOK, MST_WNACK, MST_ARBLOST}

Started(m) == \E i \in DOMAIN m.log : m.log[i][1] = "start"
\* the bytes the log of one handler run shows written to MDATA
RECURSIVE SentIn(_)
SentIn(log) ==
    IF log = <<>> THEN <<>>
    ELSE (IF Head(log)[1] = "send" THEN <<WMem(Head(log)[2])>> ELSE <<>>)
         \o SentIn(Tail(log))

\* ISR(TWI0_TWIM_vect): fires while the master and its interrupts are enabled
MasterISR ==
    /\ IE
    /\ MCTRLA.en /\ MCTRLA.irq
    /\ \E s \in MStatuses(MADDR.rw), v \in RBytes :
         LET m == TWIM_vect([MCur EXCEPT !.log = <<<<"irq", s>>>>], s, v,
                            twim_isrCallback_)
         IN  /\ MSet(m)
             /\ m_hist' = IF Started(m) THEN <<>> ELSE Append(m_hist, s)
             /\ m_sent' = IF Started(m) THEN <<>> ELSE m_sent \o SentIn(m.log)
             /\ m_req' = IF Started(m) THEN CbReq ELSE m_req
    /\ UNCHANGED <<twim_isrCallback_, mpc, wait_us, wait_call, wait_ret,
                   nonMaster>>

\* the caller of the engine runs in the main context, after setup(), and is
\* not inside twim_waitUS
Caller == pc = "top" /\ mpc = "idle"

\* a caller issues twim_writeRead / twim_writeWrite / twim_write / twim_read
MasterRequestOf(reqs) ==
    /\ Caller
    /\ \E req \in reqs :
         /\ MSet(Issue([MCur EXCEPT !.log = <<<<"call", Busy01(MCur)>>>>], req))
         /\ m_req' = req
    /\ m_hist' = <<>>
    /\ m_sent' = <<>>
    /\ wait_ret' = <<>>
    /\ UNCHANGED <<twim_isrCallback_, mpc, wait_us, wait_call, nonMaster>>
MasterRequest == MasterRequestOf(Requests)

\* no transaction has been started, or the last one was switched off
NoReq == [op |-> "none", w |-> "null", wn |-> 0, w2 |-> "null", wn2 |-> 0,
          r |-> "null", rn |-> 0]

\* twim_on(addr): m_address(addr) (which is m_off(); MADDR = addr<<1),
\* m_toStateIdle(), m_on()
twim_on(m, addr) ==
    [m EXCEPT !.MCTRLA = [en |-> TRUE, irq |-> FALSE],
              !.MADDR = [addr |-> addr, rw |-> 0],
              !.log = Append(@, <<"on", addr>>)]

\* faulty variant of twim_off: only the enable bit is cleared
twim_offKeepIrq(m) ==
    [m EXCEPT !.MCTRLA.en = FALSE,
              !.log = Append(@, <<"off", Busy01(m)>>)]

\* twim_off(): MCTRLA = 0 (the log notes whether a transaction was in flight)
twim_off(m) ==
    [m EXCEPT !.MCTRLA = [en |-> FALSE, irq |-> FALSE],
              !.log = Append(@, <<"off", Busy01(m)>>)]

MasterOn ==
    /\ Caller
    /\ MSet(twim_on(MCur, fromApp_addr))
    /\ wait_ret' = <<>>
    /\ m_req' = NoReq /\ m_hist' = <<>> /\ m_sent' = <<>>
    /\ UNCHANGED <<twim_isrCallback_, mpc, wait_us, wait_call, nonMaster>>

MasterOff ==
    /\ Caller
    /\ MCTRLA.en \/ MCTRLA.irq
    /\ MSet(twim_off(MCur))
    /\ wait_ret' = <<>>
    /\ m_req' = NoReq /\ m_hist' = <<>> /\ m_sent' = <<>>
    /\ UNCHANGED <<twim_isrCallback_, mpc, wait_us, wait_call, nonMaster>>

\* twim_callback(cb)
MasterCallback ==
    /\ Caller
    /\ \E cb \in {"null", "restart"} :
         /\ cb # twim_isrCallback_
         /\ twim_isrCallback_' = cb
    /\ m_log' = <<>>
    /\ wait_ret' = <<>>
    /\ UNCHANGED <<MCTRLA, MADDR, MCTRLB, MDATA, txbuf_, txbufEnd_, txbuf2_,
                   txbuf2End_, rxbuf_, rxbufEnd_, twi_lastResult_, rmem, mpc,
                   wait_us, wait_call, m_req, m_hist,
                   m_sent, nonMaster>>

\* twim_waitUS(us) is entered
WaitCall ==
    /\ Caller
    /\ \E us \in 0 .. MaxUs :
          /\ wait_us' = us
          /\ wait_call' = [us |-> us, steps |-> 0]
    /\ mpc' = "wait"
    /\ wait_ret' = <<>>
    /\ m_log' = <<>>
    /\ UNCHANGED <<MCTRLA, MADDR, MCTRLB, MDATA, txbuf_, txbufEnd_, txbuf2_,
                   txbuf2End_, rxbuf_, rxbufEnd_, twi_lastResult_,
                   twim_isrCallback_, rmem, m_req, m_hist,
                   m_sent, nonMaster>>

\* one round of while( _delay_us(1), --us && twim_isBusy() ){}, and the
\* return of twim_lastResultOK() when the condition fails; us is a uint16_t,
\* so --us on 0 gives 65535 (a call is followed for MaxSteps rounds)
WaitStep ==
    /\ mpc = "wait"
    /\ wait_call.steps < MaxSteps
    /\ LET us == (wait_us - 1) % 65536
       IN  IF us # 0 /\ m_isBusy(MCur)
           THEN /\ wait_us' = us
                /\ wait_call' = [wait_call EXCEPT !.steps = @ + 1]
                /\ UNCHANGED <<mpc, wait_ret>>
           ELSE /\ mpc' = "idle"
                /\ wait_us' = 0
                /\ wait_call' = [us |-> 0, steps |-> 0]
                /\ wait_ret' = <<twim_lastResultOK(MCur)>>
    /\ m_log' = <<>>
    /\ UNCHANGED <<MCTRLA, MADDR, MCTRLB, MDATA, txbuf_, txbufEnd_, txbuf2_,
                   txbuf2End_, rxbuf_, rxbufEnd_, twi_lastResult_,
                   twim_isrCallback_, rmem, m_req, m_hist,
                   m_sent, nonMaster>>

\* ------------------------------------------------------------- abort_safe
AbortUart ==
    /\ LineStep("abort_uart", "abort_updi", FALSE, SETAPP4_UPDI)
    /\ UNCHANGED blink_delay
AbortUpdi ==
    /\ LineStep("abort_updi", "abort_off", SETAPP4_UART, FALSE)
    /\ UNCHANGED blink_delay
\* faulty variant of the end of abort_safe: cli() is left out
abort_cliMissing(ie) == ie
\* cli(): the global interrupt enable after it
abort_cli(ie) == FALSE
\* uart1_flush(); twim_off(); twi1m_off(); ...; cli(); while(1) toggle the LED
AbortHalt ==
    /\ pc = "abort_off"
    /\ MCTRLA' = [en |-> FALSE, irq |-> FALSE]
    /\ IE' = abort_cli(IE)
    /\ pc' = "halt"
    /\ UNCHANGED <<slaveVars, cbVars, printJob, relayVars, debug_print_done,
                   SETAPP4_UART, SETAPP4_UPDI, blink_delay, envVars,
                   iter_cmd, MADDR, MCTRLB, MDATA, txbuf_, txbufEnd_, txbuf2_,
                   txbuf2End_, rxbuf_, rxbufEnd_, twi_lastResult_,
                   twim_isrCallback_, rmem, mpc, wait_us, wait_call, wait_ret,
                m_req,
                   m_hist, m_sent, m_log>>

\* ------------------------------------------------------------ specifications

Init ==
    /\ SDATA = [b \in Buses |-> 0]
    /\ SADDR = [b \in Buses |-> 0]
    /\ SCTRLA = [b \in Buses |-> 0]
    /\ SCTRLB = [b \in Buses |-> 0]
    /\ twis_isrCallback_ = [b \in Buses |-> "null"]
    /\ s_lastAddress = [b \in Buses |-> 0]
    /\ is1st = [b \in Buses |-> FALSE]
    /\ init_call = <<>>
    /\ RxBuffer = [b \in Buses |-> ZeroBuf]
    /\ RxBufferLength = [b \in Buses |-> 0]
    /\ TxBuffer = [b \in Buses |-> ZeroBuf]
    /\ TxBufferLength = [b \in Buses |-> 0]
    /\ TxBufferIndex = [b \in Buses |-> 0]
    /\ last_op = [b \in Buses |-> LAST_OP_A]
    /\ slave_status_cpy = [b \in Buses |-> 0]
    /\ printJob = [printing |-> FALSE,
                   printOp1Buffer |-> ZeroBuf, printOp1BufferLength |-> 0,
                   printOp1BufferIndex |-> 0, printOp1rw |-> 0,
                   printOp2Buffer |-> ZeroBuf, printOp2BufferLength |-> 0,
                   printOp2BufferIndex |-> 0, printOp2rw |-> 0,
                   print_slave_addr |-> 0]
    /\ got_twi0 = 0 /\ got_twi1 = 0
    /\ got_twi0_buf = ZeroBuf
    /\ got_twi0BufferLength = 0 /\ got_twi0BufferIndex = 0
    /\ pc = "setup_uart"
    /\ debug_print_done = 0
    /\ SETAPP4_UART = FALSE /\ SETAPP4_UPDI = FALSE
    /\ blink_delay = cnvrt_milli(0)
    /\ IE = FALSE
    /\ hw = [b \in Buses |-> "idle"]
    /\ sess = [b \in Buses |-> <<>>]
    /\ oob = FALSE
    /\ nev = 0
    /\ nsess = [b \in Buses |-> 0]
    /\ prev = [b \in Buses |-> NoSession]
    /\ last_ev = [b \in Buses |-> <<>>]
    /\ mon_rec = <<>>
    /\ iter_cmd = -1
    /\ MCTRLA = [en |-> FALSE, irq |-> FALSE]
    /\ MADDR = [addr |-> 0, rw |-> 0]
    /\ MCTRLB = 0 /\ MDATA = 0
    /\ txbuf_ = NULL /\ txbufEnd_ = NULL /\ txbuf2_ = NULL
    /\ txbuf2End_ = NULL /\ rxbuf_ = NULL /\ rxbufEnd_ = NULL
    /\ twi_lastResult_ = FALSE
    /\ twim_isrCallback_ = "null"
    /\ rmem = [i \in 0 .. MaxN |-> 0]
    /\ mpc = "idle" /\ wait_us = 0 /\ wait_ret = <<>>
    /\ wait_call = [us |-> 0, steps |-> 0]
    /\ m_req = NoReq
    /\ m_hist = <<>>
    /\ m_sent = <<>>
    /\ m_log = <<>>

\* the host of Spec: short command sessions on bus 0
SpecEnv ==
    [total |-> MaxCmdEv, sessions |-> MaxCmdEv, data |-> MaxData,
     phases |-> [b \in Buses |-> MaxPhases],
     bytes |-> Bytes, rest |-> BurstBytes,
     addrs |-> [b \in Buses |-> {fromHost_addr}],
     dirs |-> [b \in Buses |-> {0, 1}],
     errs |-> [b \in Buses |-> {}]]

\* the external master of SpecSlave: any events, to either address bus 0
\* answers, bus errors included
SlaveEnv ==
    [total |-> MaxEv, sessions |-> MaxEv, data |-> MaxEv,
     phases |-> [b \in Buses |-> MaxEv],
     bytes |-> Bytes, rest |-> BurstBytes,
     addrs |-> [b \in Buses |-> {0, fromHost_addr}],
     dirs |-> [b \in Buses |-> {0, 1}],
     errs |-> [b \in Buses |-> {ST_BUSERR}]]

\* the external masters of SpecBurst: MaxBursts sessions a bus, each one
\* write phase that may run past the buffer
BurstLen == BUFF_SIZE + 2
BurstEnv ==
    [total |-> BurstLen + 2, sessions |-> MaxBursts, data |-> BurstLen,
     phases |-> [b \in Buses |-> 1],
     bytes |-> BurstBytes, rest |-> BurstBytes,
     addrs |-> [b \in Buses |-> {fromHost_addr}],
     dirs |-> [b \in Buses |-> {0}],
     errs |-> [b \in Buses |-> {ST_BUSERR}]]

Setup == SetupUart \/ SetupUpdi \/ SetupTwi \/ SetupVars

MainLoop ==
    \/ MainInput \/ MainPoll \/ MainRelay
    \/ UpdiModeUart \/ UpdiModeUpdi
    \/ UartModeUart \/ UartModeUpdi
    \/ MainClear
    \/ AbortUart \/ AbortUpdi \/ AbortHalt

Next ==
    \/ Setup
    \/ MainLoop
    \/ SlaveISR(0, SpecEnv)

Spec == Init /\ [][Next]_vars

\* the master engine under an arbitrary caller
NextMaster ==
    \/ Setup
    \/ MasterOn \/ MasterOff \/ MasterCallback \/ MasterRequest
    \/ WaitCall \/ WaitStep
    \/ MasterISR

SpecMaster == Init /\ [][NextMaster]_vars

\* the slave engine of bus 0 under an arbitrary external master
NextSlave ==
    \/ Setup
    \/ SlaveISR(0, SlaveEnv)

SpecSlave == Init /\ [][NextSlave]_vars

\* both slave engines under long bursts
NextBurst ==
    \/ Setup
    \/ \E b \in Buses : SlaveISR(b, BurstEnv)

SpecBurst == Init /\ [][NextBurst]_vars

\* the external masters of SpecBoth: short sessions on either bus, to the
\* address the bus was enabled with or to the general-call address
BothEnv ==
    [total |-> MaxBoth, sessions |-> MaxBoth, data |-> MaxData,
     phases |-> [b \in Buses |-> MaxPhases],
     bytes |-> Bytes, rest |-> BurstBytes,
     addrs |-> [b \in Buses |-> {0, fromHost_addr}],
     dirs |-> [b \in Buses |-> {0, 1}],
     errs |-> [b \in Buses |-> {}]]

\* both slave engines under short sessions
NextBoth ==
    \/ Setup
    \/ \E b \in Buses : SlaveISR(b, BothEnv)

SpecBoth == Init /\ [][NextBoth]_vars

\* both slave interrupt handlers on every value of the status register
NextRaw ==
    \/ Setup
    \/ \E b \in Buses : SlaveISRRaw(b)

SpecRaw == Init /\ [][NextRaw]_vars

\* the external masters of SpecAbort: a few events on either bus
AbortEnv ==
    [total |-> MaxAbortEv, sessions |-> MaxAbortEv, data |-> MaxData,
     phases |-> [b \in Buses |-> MaxPhases],
     bytes |-> BurstBytes, rest |-> BurstBytes,
     addrs |-> [b \in Buses |-> {fromHost_addr}],
     dirs |-> [b \in Buses |-> {0, 1}],
     errs |-> [b \in Buses |-> {}]]

\* the main loop with its abort path (the relay record stays empty under
\* AbortEnv, so the mode switches are left out), both slave handlers and the
\* master engine with a caller that writes one byte
NextAbort ==
    \/ Setup
    \/ MainInput \/ MainPoll \/ MainRelay
    \/ AbortUart \/ AbortUpdi \/ AbortHalt
    \/ \E b \in Buses : SlaveISR(b, AbortEnv)
    \/ MasterOn \/ MasterRequestOf({CbReq})
    \/ MasterISR

SpecAbort == Init /\ [][NextAbort]_vars

\* the slave engines with twis_init / twi1s_init called again by the main
\* context, with and without a callback
NextInit ==
    \/ Setup
    \/ SlaveInit
    \/ \E b \in Buses : SlaveISR(b, AbortEnv)

SpecInit == Init /\ [][NextInit]_vars

\* ------------------------------------------------------------------ claims
\* the interrupt of bus 0 that delivers STOPPED: only it takes hw[0] to idle
Stopped0 == hw[0] # "idle" /\ hw'[0] = "idle"
\* number of the byte q[i] within its phase, counted from 1
ByteNo(q, i) == i - LastA(SubSeq(q, 1, i))

\* C1: under every hardware-ordered event sequence, the receive length of
\* either bus never exceeds BUFF_SIZE (32) and no byte is stored at a
\* receive-buffer index outside 0..31
C1_RxLengthBounded ==
    /\ \A b \in Buses : RxBufferLength[b] <= BUFF_SIZE
    /\ ~oob
\* a burst has filled the buffer of bus 0 and the engine has answered
\* NACK+complete
C1_BufferFull ==
    /\ RxBufferLength[0] = BUFF_SIZE
    /\ hw[0] = "wait"
    /\ RxBuffer[0][BUFF_SIZE - 1] = 1

\* C2 (as the code has it): of the consecutive bytes of one write phase the
\* first 31 are accepted with ACK, and the 32nd, which fills the buffer, is
\* stored and answered with NACK+complete
C2_FullBufferNacks ==
    \A b \in Buses : \A i \in DOMAIN sess[b] :
        Kind(sess[b][i]) = "W" =>
            /\ sess[b][i][3] = ByteNo(sess[b], i) - 1
            /\ sess[b][i][4] <=> (ByteNo(sess[b], i) < BUFF_SIZE)
C2_ThirtySecondByteNacked ==
    /\ Len(sess[0]) = BUFF_SIZE + 1
    /\ SubSeq(Last(sess[0]), 1, 4) = <<"W", 1, BUFF_SIZE - 1, FALSE>>
\* C2 as stated: each of the first 32 consecutive bytes is answered with ACK
C2_First32Acked ==
    \A b \in Buses : \A i \in DOMAIN sess[b] :
        (Kind(sess[b][i]) = "W" /\ ByteNo(sess[b], i) <= BUFF_SIZE)
            => sess[b][i][4]

\* a caller's request has just been issued, with the engine busy or not
CallerIssued(busy) == m_log' # <<>> /\ m_log'[1] = <<"call", busy>>
\* the engine holds exactly the pointers and direction of request r, in
\* flight and with the result reset
HoldsRequest(r) ==
    /\ txbuf_' = <<r.w, 0>> /\ txbufEnd_' = <<r.w, r.wn>>
    /\ txbuf2_' = <<r.w2, 0>> /\ txbuf2End_' = <<r.w2, r.wn2>>
    /\ rxbuf_' = <<r.r, 0>> /\ rxbufEnd_' = <<r.r, r.rn>>
    /\ MADDR'.rw = IF r.op = "writeWrite" \/ r.wn # 0 THEN 0 ELSE 1
    /\ ~twi_lastResult_'
    /\ MCTRLA'.irq

\* C3 (as the code has it): a transaction issued while twim_isBusy() is true
\* is not queued and not rejected: it replaces the transaction in flight,
\* whose pointers and direction are overwritten with the new request's, the
\* last result is reset to false and the engine stays busy
C3_IssueWhileBusyOverwrites ==
    [][CallerIssued(1) => HoldsRequest(m_req')]_vars
\* a read has been issued over a transaction in flight
C3_IssuedWhileBusy ==
    /\ m_log # <<>> /\ m_log[1] = <<"call", 1>>
    /\ m_req.op = "read" /\ m_req.rn = MaxN
    /\ rxbufEnd_ = <<"r", MaxN>>
    /\ MCTRLA.irq
\* C3 as stated: issuing while busy leaves the pointers, the direction and
\* the progress of the transaction in flight unchanged
C3_IssueWhileBusyIgnored ==
    [][CallerIssued(1) =>
         UNCHANGED <<txbuf_, txbufEnd_, txbuf2_, txbuf2End_, rxbuf_,
                     rxbufEnd_, MADDR>>]_vars

\* the bytes of the write phase that ends right before the ADDRESSED q[j]
WrittenBefore(q, j) == WBytes(q, LastA(SubSeq(q, 1, j - 1)), j - 1)
Mismatched(q) ==
    \E j \in 2 .. Len(q) :
        /\ q[1][4]
        /\ Kind(q[j]) = "A"
        /\ \A x \in 2 .. (j - 1) : Kind(q[x]) # "A"
        /\ q[j][2] # q[1][2]
\* C5 as stated, for the first session after reset (no record is pending
\* then): when a compound session whose two phases address different targets
\* reaches STOPPED, both diagnostic slot lengths are zero
C5_MismatchLeavesNoRecord ==
    [][(Stopped0 /\ nsess[0] = 1 /\ Mismatched(sess[0])) =>
         /\ printJob'.printOp1BufferLength = 0
         /\ printJob'.printOp2BufferLength = 0]_vars

\* routing line levels uart, updi select the mode command c asks for
LinesFor(c, uart, updi) == IF c = 7 THEN updi /\ ~uart ELSE uart /\ ~updi
\* C6 as stated: a main-loop iteration that starts with the relay record of a
\* write-then-read session pending (first byte c) ends with the routing lines
\* selecting the mode of c, whatever the state of the diagnostic stream
C6_NextIterationDispatches ==
    [][(pc \in {"poll", "relay", "clear"} /\ pc' = "top" /\ iter_cmd # -1)
         => LinesFor(iter_cmd, SETAPP4_UART', SETAPP4_UPDI')]_vars

\* q is ADDRESSED(write), n bytes (1 <= n < 32), repeated ADDRESSED(read) and
\* MASTER_READ events, all to the host address and acknowledged
WriteThenRead(q) ==
    /\ LastA(q) >= 3 /\ LastA(q) - 2 < BUFF_SIZE
    /\ SubSeq(q[1], 1, 4) = <<"A", fromHost_addr, 0, TRUE>>
    /\ SubSeq(q[LastA(q)], 1, 4) = <<"A", fromHost_addr, 1, TRUE>>
    /\ \A i \in 2 .. (LastA(q) - 1) : Kind(q[i]) = "W"
    /\ \A i \in (LastA(q) + 1) .. Len(q) : Kind(q[i]) = "R"
\* C7: when a host-bus session ADDRESSED(write), b1..bn, ADDRESSED(read),
\* MASTER_READ.. reaches STOPPED, the relay record holds exactly b1..bn with
\* length n and got_twi0 is set
C7_RelayRecordHoldsWrite ==
    [][(Stopped0 /\ WriteThenRead(sess[0])) =>
         /\ got_twi0' = 1
         /\ got_twi0BufferLength' = LastA(sess[0]) - 2
         /\ \A k \in 1 .. (LastA(sess[0]) - 2) :
               got_twi0_buf'[k - 1] = sess[0][k + 1][2]]_vars
\* [0x07] written, one byte read, STOPPED: the relay record is [0x07]
C7_RelayRecordSeven ==
    /\ prev[0] = [end |-> "S", addr |-> fromHost_addr, bytes |-> <<>>]
    /\ hw[0] = "idle" /\ nev = 5
    /\ got_twi0 = 1 /\ got_twi0BufferLength = 1 /\ got_twi0_buf[0] = 7

\* C8 (as the code has it): the switch to programming-interface mode sets
\* the blink period to a quarter of BLINK_DELAY, the switch back to serial
\* mode restores BLINK_DELAY
C8_BlinkQuarter ==
    [][/\ (pc = "updi_updi" /\ pc' = "clear")
            => blink_delay' = cnvrt_milli(BLINK_DELAY \div 4)
       /\ (pc = "uart_updi" /\ pc' = "clear")
            => blink_delay' = cnvrt_milli(BLINK_DELAY)]_vars
\* programming-interface mode has just been selected
C8_UpdiSelected ==
    /\ pc = "clear" /\ SETAPP4_UPDI /\ ~SETAPP4_UART
    /\ blink_delay = cnvrt_milli(BLINK_DELAY \div 4)
\* C8 as stated: the switch to programming-interface mode halves the period
C8_BlinkHalf ==
    [][(pc = "updi_updi" /\ pc' = "clear")
         => blink_delay' = cnvrt_milli(BLINK_DELAY \div 2)]_vars

\* C9 as stated: at no instant are both routing lines active
C9_LinesExclusive == ~(SETAPP4_UART /\ SETAPP4_UPDI)

\* C10: twim_waitUS on a transaction whose interrupt never fires returns
\* false and leaves the engine busy; on a transaction the hardware reported
\* as NACKed it returns false and leaves the engine not busy
C10_WaitDisambiguates ==
    [][(mpc = "wait" /\ mpc' = "idle") =>
         /\ (m_hist = <<>> /\ m_isBusy(MCur))
               => (wait_ret' = <<FALSE>> /\ MCTRLA'.irq)
         /\ (m_hist # <<>> /\ Last(m_hist) = MST_WNACK)
               => (wait_ret' = <<FALSE>> /\ ~MCTRLA'.irq)]_vars
\* twim_waitUS has just timed out on a transaction no interrupt came for
C10_TimedOut ==
    /\ mpc = "idle" /\ wait_ret = <<FALSE>> /\ m_log = <<>>
    /\ m_hist = <<>> /\ m_req # NoReq
    /\ MCTRLA.irq

\* ---------------------------------------------------------------- C11
\* what the last handler run or engine call did, by kind
Did(tag) == {i \in DOMAIN m_log : m_log[i][1] = tag}
FinishSteps == {"result", "nackstop", "irqoff"}

\* C11: on every finish the result is recorded, NACK+STOP is issued and the
\* interrupt is disabled before the completion callback runs, and nothing of
\* the finish comes after it; when the callback starts a new transaction the
\* handler returns with the engine busy and the result false
C11_FinishBeforeCallback ==
    /\ \A i \in Did("result") :
          /\ i + 2 \in DOMAIN m_log
          /\ m_log[i + 1][1] = "nackstop" /\ m_log[i + 2][1] = "irqoff"
    /\ \A i \in Did("callback") :
          /\ \A t \in FinishSteps : \E j \in Did(t) : j < i
          /\ \A k \in DOMAIN m_log : k > i => m_log[k][1] \notin FinishSteps
          /\ (\E k \in Did("start") : k > i)
                => (m_isBusy(MCur) /\ ~twim_lastResultOK(MCur))
    /\ (Did("irqoff") # {} /\ Did("start") = {})
          => /\ ~m_isBusy(MCur) /\ MCTRLB = M_NACKSTOP
             /\ \A i \in Did("result") :
                   twim_lastResultOK(MCur) <=> (m_log[i][2] = 1)
\* a completion callback has just started a new transaction from a finish
C11_CallbackRestarted ==
    /\ \E i \in Did("callback") : \E k \in Did("start") : k > i
    /\ m_req = CbReq
    /\ m_isBusy(MCur)

\* ---------------------------------------------------------------- C12
\* the status snapshot the last handler run read, if the last step was one
HandledIrq == m_log # <<>> /\ m_log[1][1] = "irq"
\* an error bit is set, or the snapshot is neither READOK nor WRITEOK
FailStatus(s) == BitAnd(s, ANYERR) # 0 \/ s \notin {READOK, WRITEOK}

\* C12: a master interrupt whose status has an arbitration-lost or bus-error
\* bit, or is neither exactly READOK nor exactly WRITEOK, finishes with
\* result false and the interrupt disabled; no byte is stored or sent in it
\* and the engine starts nothing itself (only a completion callback may)
C12_FailClosed ==
    (HandledIrq /\ FailStatus(m_log[1][2])) =>
        /\ Did("result") # {} /\ Did("irqoff") # {}
        /\ \A i \in Did("result") : m_log[i][2] = 0
        /\ Did("store") = {} /\ Did("send") = {} /\ Did("startRead") = {}
        /\ \A k \in Did("start") : \E i \in Did("callback") : i < k
        /\ Did("start") = {}
              => (~m_isBusy(MCur) /\ ~twim_lastResultOK(MCur))
\* a written byte has just been answered with NACK by the target
C12_WriteNacked ==
    /\ HandledIrq /\ m_log[1][2] = MST_WNACK
    /\ m_sent # <<>>
    /\ ~m_isBusy(MCur)

\* ---------------------------------------------------------------- C13
CountOf(q, v) == Cardinality({i \in DOMAIN q : q[i] = v})
\* the handler has finished the transaction m_req started
Finished == m_req # NoReq /\ m_hist # <<>> /\ ~m_isBusy(MCur)
\* bytes of the write buffers the target acknowledged: every WRITEOK after
\* the first, which acknowledges the address
AckedBytes ==
    IF CountOf(m_hist, WRITEOK) = 0 THEN 0 ELSE CountOf(m_hist, WRITEOK) - 1
\* bytes the handler stored: one for every READOK
StoredBytes == CountOf(m_hist, READOK)
\* no error or unknown status, all of both write buffers acknowledged and,
\* with a read buffer, as many bytes stored as it is long
Complete ==
    /\ \A i \in DOMAIN m_hist : ~FailStatus(m_hist[i])
    /\ AckedBytes = m_req.wn + m_req.wn2
    /\ m_req.r # "null" => StoredBytes = m_req.rn

\* C13: once the engine is not busy after a started transaction, the last
\* result is true if and only if no error status was observed, every byte
\* of write buffer 1 and 2 was acknowledged and, when a read buffer of
\* length rn was supplied, exactly rn bytes were stored
C13_ResultIffComplete == Finished => (twim_lastResultOK(MCur) <=> Complete)

\* ---------------------------------------------------------------- C14
\* the bytes of request r: write buffer 1 in index order, then write buffer 2
Expected(r) ==
    [i \in 1 .. r.wn |-> WMem(<<r.w, i - 1>>)]
    \o [i \in 1 .. r.wn2 |-> WMem(<<r.w2, i - 1>>)]
IsPrefix(p, q) == Len(p) <= Len(q) /\ SubSeq(q, 1, Len(p)) = p
\* the address and every byte of both write buffers have been acknowledged
WritePhaseDone == CountOf(m_hist, WRITEOK) = m_req.wn + m_req.wn2 + 1
InReadPhase == MADDR.rw = 1

\* C14: the bytes put on the bus are write buffer 1 in index order, then
\* write buffer 2 in index order, none sent twice or skipped and each only
\* after an acknowledge; the engine is in the read phase only if a read
\* buffer was supplied and all bytes were sent, it switches to it when the
\* write phase is done and a read buffer was supplied, and otherwise
\* finishes with success
C14_WriteOrderThenRead ==
    m_req # NoReq =>
        /\ IsPrefix(m_sent, Expected(m_req))
        /\ Len(m_sent) <= CountOf(m_hist, WRITEOK)
        /\ InReadPhase => (m_req.r # "null" /\ m_sent = Expected(m_req))
        /\ (WritePhaseDone /\ m_req.r # "null") => InReadPhase
        /\ (WritePhaseDone /\ m_req.r = "null")
              => (m_sent = Expected(m_req) /\ ~m_isBusy(MCur)
                  /\ twim_lastResultOK(MCur))

\* ---------------------------------------------------------------- C15
\* the classification by fixed priority, on the bits of the status snapshot
\* DIF 128, APIF 64, COLL 8, BUSERR 4, DIR 2, AP 1
Bit(s, w) == (s \div w) % 2 = 1
PriorityState(s) ==
    IF Bit(s, 8) \/ Bit(s, 4) THEN "E"
    ELSE IF Bit(s, 64) /\ ~Bit(s, 1) THEN "S"
    ELSE IF Bit(s, 64) /\ Bit(s, 1) THEN "A"
    ELSE IF Bit(s, 128) /\ Bit(s, 2) THEN "R"
    ELSE IF Bit(s, 128) /\ ~Bit(s, 2) THEN "W"
    ELSE "E"

\* C15: each status snapshot is classified with fixed priority: ERROR when a
\* collision or bus-error bit is set, else STOPPED, else ADDRESSED, else
\* MASTER_READ or MASTER_WRITE by data flag and direction, else ERROR; one
\* state is delivered per interrupt
C15_ClassifiedByPriority ==
    \A b \in Buses : last_ev[b] # <<>> =>
        Kind(last_ev[b]) = PriorityState(last_ev[b][5])
\* a snapshot with the data flag, the stop flag and a collision bit all set
\* has been delivered as ERROR
C15_ErrorWins ==
    \E b \in Buses :
        /\ last_ev[b] # <<>>
        /\ last_ev[b][5] = 128 + 64 + 8
        /\ Kind(last_ev[b]) = "E"

\* ---------------------------------------------------------------- C16
\* the last event of q is the first MASTER_READ since the last ADDRESSED
FirstRead(q) ==
    /\ q # <<>> /\ Kind(Last(q)) = "R"
    /\ \A i \in DOMAIN q : (LastA(q) < i /\ i < Len(q)) => Kind(q[i]) # "R"
\* the event's callback returned false / the event is STOPPED or ERROR
Refused(ev) == ~ev[6]
Terminal(ev) == Kind(ev) \in {"S", "E"}

\* C16 (as the code has it): every slave interrupt ends with one response,
\* NACK+complete when the callback returned false, the event is STOPPED or
\* ERROR, or the event is a MASTER_READ other than the first after ADDRESSED
\* whose status carries the master's not-acknowledge, and ACK otherwise
C16_OneResponse ==
    \A b \in Buses : last_ev[b] # <<>> =>
        LET ev == last_ev[b]
            nackedRead == /\ Kind(ev) = "R" /\ Bit(ev[5], 16)
                          /\ ~FirstRead(sess[b])
        IN  SCTRLB[b] = IF Refused(ev) \/ Terminal(ev) \/ nackedRead
                        THEN S_NACKCOMPLETE ELSE S_ACK
\* a later MASTER_READ carrying the master's not-acknowledge has been
\* answered NACK+complete although the callback returned true
C16_NackedReadCompletes ==
    /\ last_ev[0] # <<>> /\ Kind(last_ev[0]) = "R"
    /\ Bit(last_ev[0][5], 16) /\ last_ev[0][6]
    /\ SCTRLB[0] = S_NACKCOMPLETE
\* C16 as stated: ACK if the callback returned true and the event is not
\* STOPPED or ERROR, NACK+complete if it returned false or the event is one
C16_AckUnlessRefusedOrTerminal ==
    \A b \in Buses : last_ev[b] # <<>> =>
        SCTRLB[b] = IF Refused(last_ev[b]) \/ Terminal(last_ev[b])
                    THEN S_NACKCOMPLETE ELSE S_ACK

\* ---------------------------------------------------------------- C17
\* the last interrupt of bus b delivered STOPPED
JustStopped(b) == last_ev[b] # <<>> /\ Kind(last_ev[b]) = "S"

\* C17: after every STOPPED event on a bus, whichever branch was taken and
\* whatever the state of the print job, the receive length and the transmit
\* length of that bus are both zero
C17_StoppedResetsLengths ==
    \A b \in Buses : JustStopped(b) =>
        (RxBufferLength[b] = 0 /\ TxBufferLength[b] = 0)
\* a write+write session (both lengths non-zero at STOPPED, second slot
\* captured) has just ended
C17_WriteWriteStopped ==
    /\ JustStopped(0)
    /\ prev[0].end = "S" /\ prev[0].bytes # <<>>
    /\ printJob.printOp2BufferLength > 0
    /\ printJob.printOp2rw = LAST_OP_W
    /\ RxBufferLength[0] = 0 /\ TxBufferLength[0] = 0

\* ---------------------------------------------------------------- C18
\* this step is an interrupt of bus b
IsrOf(b) == nev' = nev + 1 /\ (sess'[b] # sess[b] \/ hw'[b] # hw[b])
\* ... that delivers STOPPED
StoppedOf(b) == IsrOf(b) /\ hw[b] # "idle" /\ hw'[b] = "idle"
\* ... on the host bus, ending a write-then-read session
RelayStop ==
    StoppedOf(0) /\ TxBufferLength[0] # 0 /\ RxBufferLength[0] = 0

\* C18: only a STOPPED event of the host bus with transmit length non-zero
\* and receive length zero writes the Relay Record and sets its flag; every
\* other slave event of either bus (plain write, write+write, ping, all of
\* the application bus) leaves the Relay Record, its flag, both routing
\* lines and the blink period unchanged
C18_RelayOnlyOnWriteRead ==
    [][/\ RelayStop =>
            /\ got_twi0' = 1
            /\ got_twi0BufferLength' = TxBufferLength[0]
            /\ \A i \in Idx : i < TxBufferLength[0]
                  => got_twi0_buf'[i] = TxBuffer[0][i]
       /\ ((\E b \in Buses : IsrOf(b)) /\ ~RelayStop) =>
            UNCHANGED <<relayVars, SETAPP4_UART, SETAPP4_UPDI, blink_delay>>
      ]_vars
\* a write+write session of the host bus and a session of the application
\* bus have ended and the Relay Record is untouched
C18_OtherSessionsEnded ==
    /\ prev[0].end = "S" /\ prev[0].bytes # <<>>
    /\ printJob.printOp2rw = LAST_OP_W /\ printJob.printOp2BufferLength > 0
    /\ prev[1].end = "S"
    /\ got_twi0 = 0 /\ got_twi0BufferLength = 0


\* ---------------------------------------------------------------------- C19
\* what may follow a fragment inside one record
Follows(f, g) ==
    CASE f[1] = "header" -> g[1] = "status"
      [] f[1] = "status" -> g[1] = "len"
      [] f[1] = "len" -> g[1] \in {"op1", "op2", "trailer"}
      [] f[1] = "op1" -> \/ g[1] = "op1" /\ g[2] = f[2] + 1
                         \/ g[1] \in {"op2", "trailer"}
      [] f[1] = "op2" -> \/ g[1] = "op2" /\ g[2] = f[2] + 1
                         \/ g[1] = "trailer"
      [] OTHER -> FALSE
InOrder(rec) ==
    /\ rec # <<>> => rec[1][1] = "header"
    /\ \A i \in 1 .. Len(rec) - 1 : Follows(rec[i], rec[i + 1])
\* the call of i2c_monitor of this step wrote nothing, or one fragment
OneFragment ==
    \/ mon_rec' = mon_rec
    \/ mon_rec' = <<<<"header", 0>>>>
    \/ Len(mon_rec') = Len(mon_rec) + 1

\* C19: every record goes header, status, length, the bytes of slot 1 at
\* cursors rising by one, the bytes of slot 2 at cursors rising by one,
\* trailer; a call of i2c_monitor writes at most one fragment, and no header
\* is written between a header and its trailer
C19_FragmentOrder == [][OneFragment /\ InOrder(mon_rec')]_vars

\* the parts of C19 that do not speak of the cursors: the kinds of the
\* fragments of a record in their fixed order, one fragment per call
KindFollows(f, g) ==
    CASE f[1] = "header" -> g[1] = "status"
      [] f[1] = "status" -> g[1] = "len"
      [] f[1] = "len" -> g[1] \in {"op1", "op2", "trailer"}
      [] f[1] = "op1" -> g[1] \in {"op1", "op2", "trailer"}
      [] f[1] = "op2" -> g[1] \in {"op2", "trailer"}
      [] OTHER -> FALSE
C19_KindOrder ==
    [][/\ OneFragment
       /\ mon_rec' # <<>> => mon_rec'[1][1] = "header"
       /\ \A i \in 1 .. Len(mon_rec') - 1 :
             KindFollows(mon_rec'[i], mon_rec'[i + 1])]_vars
\* a record in which slot 1 was printed from cursor 0 twice
C19_SlotRestarted ==
    \E i \in 1 .. Len(mon_rec) - 1 :
        mon_rec[i] = <<"op1", 0>> /\ mon_rec[i + 1] = <<"op1", 0>>

\* ---------------------------------------------------------------------- C20
\* the main loop keeps running (setup and every step of main() that is
\* enabled is taken in the end), and uart1_availableForWrite() answers yes
\* again and again when the loop asks
PollWithRoom == MainPoll /\ pc' = "relay"
Fairness ==
    /\ WF_vars(Setup)
    /\ WF_vars(MainLoop)
    /\ SF_vars(PollWithRoom)
SpecLive == Init /\ [][Next]_vars /\ Fairness

HeaderOut == debug_print_done = 1
TrailerOut ==
    /\ mon_rec # <<>> /\ mon_rec[Len(mon_rec)][1] = "trailer"
    /\ printJob.printOp1BufferIndex = printJob.printOp1BufferLength
    /\ printJob.printOp2BufferIndex = printJob.printOp2BufferLength
\* '$' on the serial line: abort_safe() ends the main loop for good
Aborted == pc \in {"abort_uart", "abort_updi", "abort_off", "halt"}

\* C20: with the main loop running and room on the output stream again and
\* again, a header is followed in the end by its trailer, both slot cursors
\* at their slot lengths, whatever operation kinds the slots record (unless
\* abort_safe() halts the program first)
C20_HeaderLeadsToTrailer == HeaderOut ~> (TrailerOut \/ Aborted)

\* the monitor waits at a slot whose operation kind is LAST_OP_A: neither
\* branch of i2c_monitor writes a byte or moves the cursor
StuckOnAddressKind ==
    \/ /\ debug_print_done = 3
       /\ printJob.printOp1BufferIndex < printJob.printOp1BufferLength
       /\ printJob.printOp1rw = LAST_OP_A
    \/ /\ debug_print_done = 4
       /\ printJob.printOp2BufferIndex < printJob.printOp2BufferLength
       /\ printJob.printOp2rw = LAST_OP_A
\* every other record is finished
C20_TrailerUnlessAddressKind ==
    HeaderOut ~> (TrailerOut \/ Aborted \/ StuckOnAddressKind)

\* ---------------------------------------------------------------------- C21
\* the per-bus state of bus b: data register, last matched address, the
\* session buffers and the last-operation field
BusState(b) ==
    <<SDATA[b], s_lastAddress[b], RxBuffer[b], RxBufferLength[b],
      TxBuffer[b], TxBufferLength[b], TxBufferIndex[b], last_op[b]>>
\* the interrupt of bus b leaves the per-bus state of the other bus alone
OtherBusKept(b) == BusState(1 - b)' = BusState(1 - b)
\* a MASTER_WRITE event of bus b stores the byte its own data register holds
StoresOwnByte(b) ==
    (Kind(last_ev'[b]) = "W" /\ RxBufferLength[b] \in Idx)
        => RxBuffer'[b][RxBufferLength[b]] = SDATA'[b]
\* a MASTER_READ event of bus b that supplies a byte puts it into its own
\* data register
SuppliesOwnByte(b) ==
    (Kind(last_ev'[b]) = "R" /\ TxBufferIndex[b] < TxBufferLength[b])
        => SDATA'[b] = TxBuffer[b][TxBufferIndex[b]]

\* C21: the handler of an event of either bus reads and writes the data
\* register, last matched address, buffers and last-operation field of its
\* own bus only (and the print job), never those of the other bus
C21_BusesSeparate ==
    [][\A b \in Buses : IsrOf(b) =>
          OtherBusKept(b) /\ StoresOwnByte(b) /\ SuppliesOwnByte(b)]_vars

\* the same for the events of the host-facing bus alone
C21_HostBusSeparate ==
    [][IsrOf(0) =>
          OtherBusKept(0) /\ StoresOwnByte(0) /\ SuppliesOwnByte(0)]_vars

\* ---------------------------------------------------------------------- C22
\* i2c_monitor has written a header and not yet its trailer
RecordOpen == debug_print_done \in 1 .. 4
\* slot 1 of the print job and the address recorded with it
Slot1(pj) ==
    <<pj.printOp1Buffer, pj.printOp1BufferLength, pj.printOp1rw,
      pj.print_slave_addr>>

\* C22: between the poll that writes a header and the poll that writes its
\* trailer no interrupt handler of either bus changes the bytes, the length
\* or the operation kind of slot 1 or the recorded print address
C22_RecordNotTorn ==
    [][(RecordOpen /\ \E b \in Buses : IsrOf(b))
          => Slot1(printJob') = Slot1(printJob)]_vars

\* the same while the monitor has not yet found slot 1 finished (states 1
\* and 2, and state 3 with the cursor below the length)
C22_KeptWhileSlot1Pending ==
    [][(/\ RecordOpen
        /\ printJob.printOp1BufferIndex < printJob.printOp1BufferLength
        /\ \E b \in Buses : IsrOf(b))
          => Slot1(printJob') = Slot1(printJob)]_vars

\* ---------------------------------------------------------------------- C23
\* a host write-then-read session has committed a command: the relay record
\* is written by RelayRecord alone, which leaves its length above zero
Committed == got_twi0BufferLength > 0
\* the main loop is between two iterations and no host session is going on
Settled == pc = "top" /\ hw[0] = "idle"

\* C23: no committed command is lost: with the host bus idle and the main
\* loop between two iterations, the new-data flag being clear means that the
\* routing lines are those of the last committed command
C23_NoCommandLost ==
    (Settled /\ Committed /\ got_twi0 = 0)
        => LinesFor(got_twi0_buf[0], SETAPP4_UART, SETAPP4_UPDI)

\* the hand-off inside the main loop alone: when got_twi0 = 0 is executed,
\* the routing lines are those of the command the relay record holds
C23_ClearedCommandApplied ==
    [][(pc = "clear" /\ pc' = "top")
          => LinesFor(got_twi0_buf[0], SETAPP4_UART, SETAPP4_UPDI)]_vars

\* ---------------------------------------------------------------------- C24
\* abort_safe() has reached its while(1)
Halted == pc = "halt"
\* what the interrupt handlers and the main loop work on
Frozen ==
    UNCHANGED <<slaveVars, cbVars, printJob, relayVars, mainVars, last_ev,
                nev, MCTRLA, MADDR, MCTRLB, MDATA, txbuf_, txbufEnd_, txbuf2_,
                txbuf2End_, rxbuf_, rxbufEnd_, twi_lastResult_, rmem, m_hist>>

\* C24: once abort_safe() is in its halt loop both routing lines are
\* inactive and stay so, and no master or slave interrupt handler runs
\* again: no session buffer, print slot or relay record changes any more
C24_HaltedIsFrozen ==
    /\ [](Halted => (~SETAPP4_UART /\ ~SETAPP4_UPDI))
    /\ [][Halted => Frozen]_vars
\* halted in the middle of a host session, with the slave still enabled and
\* a master transaction in flight when '$' arrived
C24_HaltedMidSession ==
    /\ Halted
    /\ hw[0] = "rx" /\ BitAnd(SCTRLA[0], 224) # 0
    /\ m_req # NoReq /\ ~twi_lastResult_

\* ---------------------------------------------------------------------- C25
\* the last interrupt of bus b delivered MASTER_READ / with the master's
\* not-acknowledge in its status
JustRead(b) == last_ev[b] # <<>> /\ Kind(last_ev[b]) = "R"
ReadNacked(b) == JustRead(b) /\ Bit(last_ev[b][5], 16)

\* C25: on the first MASTER_READ after an ADDRESSED the master's
\* not-acknowledge is ignored (the answer is ACK exactly when the callback
\* returned true); on every later MASTER_READ of the phase a not-acknowledge
\* is answered NACK+complete whatever the callback returned; the callback
\* has run on the event in both cases
C25_FirstReadNackIgnored ==
    \A b \in Buses : JustRead(b) =>
        /\ FirstRead(sess[b]) =>
              (SCTRLB[b] = S_ACK <=> last_ev[b][6])
        /\ (~FirstRead(sess[b]) /\ ReadNacked(b)) =>
              SCTRLB[b] = S_NACKCOMPLETE
        /\ last_op[b] = LAST_OP_R
\* a first read whose status carries the not-acknowledge has been answered
\* with ACK
C25_FirstNackedReadAcked ==
    /\ ReadNacked(0) /\ FirstRead(sess[0])
    /\ SCTRLB[0] = S_ACK /\ last_op[0] = LAST_OP_R

\* ---------------------------------------------------------------------- C26
\* this step is the interrupt of bus b that delivers ADDRESSED
AddressedOf(b) == IsrOf(b) /\ Kind(last_ev'[b]) = "A"

\* C26: an ADDRESSED event that finds n > 0 received bytes leaves them, in
\* order, in the transmit buffer with transmit length n, transmit cursor 0
\* and receive length 0; one that finds none leaves the transmit buffer, its
\* length and its cursor alone; both set the last operation to address-only
C26_AddressedMovesRxToTx ==
    [][\A b \in Buses : AddressedOf(b) =>
          /\ last_op'[b] = LAST_OP_A
          /\ IF RxBufferLength[b] > 0
             THEN /\ \A i \in Idx : i < RxBufferLength[b] =>
                        TxBuffer'[b][i] = RxBuffer[b][i]
                  /\ TxBufferLength'[b] = RxBufferLength[b]
                  /\ TxBufferIndex'[b] = 0
                  /\ RxBufferLength'[b] = 0
             ELSE /\ TxBuffer'[b] = TxBuffer[b]
                  /\ TxBufferLength'[b] = TxBufferLength[b]
                  /\ TxBufferIndex'[b] = TxBufferIndex[b]]_vars
\* a repeated start after the bytes 7, 1: they are in the transmit buffer
C26_TwoBytesMoved ==
    /\ last_ev[0] # <<>> /\ Kind(last_ev[0]) = "A"
    /\ TxBufferLength[0] = 2 /\ TxBufferIndex[0] = 0 /\ RxBufferLength[0] = 0
    /\ TxBuffer[0][0] = 7 /\ TxBuffer[0][1] = 1
    /\ last_op[0] = LAST_OP_A

\* ---------------------------------------------------------------------- C27
\* this step is the interrupt of bus b that delivers MASTER_READ
ReadOf(b) == IsrOf(b) /\ Kind(last_ev'[b]) = "R"

\* C27: on every MASTER_READ the callback supplies the transmit byte at the
\* cursor and moves the cursor on by one exactly when the cursor is below
\* the transmit length, and else supplies nothing and leaves the cursor,
\* returning true either way; a supplied byte comes from an index below the
\* transmit length and below 32, and within a phase the cursor never goes
\* back, so no transmit byte is supplied twice in a phase
C27_ReadSuppliesAtCursor ==
    [][\A b \in Buses :
          /\ ReadOf(b) =>
               /\ last_ev'[b][6]
               /\ IF TxBufferIndex[b] < TxBufferLength[b]
                  THEN /\ TxBufferIndex[b] < BUFF_SIZE
                       /\ SDATA'[DataReg(b)] = TxBuffer[b][TxBufferIndex[b]]
                       /\ TxBufferIndex'[b] = TxBufferIndex[b] + 1
                  ELSE /\ SDATA' = SDATA
                       /\ TxBufferIndex'[b] = TxBufferIndex[b]
          /\ (IsrOf(b) /\ Kind(last_ev'[b]) # "A") =>
               TxBufferIndex'[b] >= TxBufferIndex[b]]_vars
\* one byte was written and echoed, and a second read found the transmit
\* buffer exhausted: nothing supplied, the callback returned true
C27_ReadPastEnd ==
    /\ Len(sess[0]) = 5
    /\ Kind(sess[0][4]) = "R" /\ sess[0][4][2] = 7
    /\ Kind(sess[0][5]) = "R" /\ sess[0][5][2] = -1 /\ sess[0][5][6]
    /\ TxBufferIndex[0] = 1 /\ TxBufferLength[0] = 1

\* ---------------------------------------------------------------------- C28
\* the session q holds a MASTER_WRITE, later a repeated start, later a
\* MASTER_READ
WroteThenRead(q) ==
    \E i, j, k \in DOMAIN q :
        /\ i < j /\ j < k
        /\ Kind(q[i]) = "W" /\ Kind(q[j]) = "A" /\ Kind(q[k]) = "R"
\* the STOPPED of a host session sets the new-data flag
FlagSet == StoppedOf(0) /\ got_twi0 = 0 /\ got_twi0' = 1

\* C28: the new-data flag of the relay record is set by a host session only
\* if the session wrote at least one byte and, after a repeated start, read
\* at least one; a repeated start followed directly by STOPPED, or a second
\* phase addressed to another target, sets nothing
C28_FlagOnlyAfterWriteRead == [][FlagSet => WroteThenRead(sess[0])]_vars

\* the flag is set after ADDRESSED(write), a byte, a repeated start to the
\* general-call address, which the callback refuses, and STOPPED
C28_FlagAfterRefusedRestart ==
    /\ got_twi0 = 1 /\ nev = 4 /\ hw[0] = "idle"
    /\ prev[0].end = "S" /\ prev[0].addr = 0

\* ---------------------------------------------------------------------- C29
\* the last interrupt of bus b delivered ADDRESSED
JustAddressed(b) == last_ev[b] # <<>> /\ Kind(last_ev[b]) = "A"

\* C29: on the host bus the address recorded for an ADDRESSED event is the
\* received address byte shifted right by one, and the callback already
\* sees it; the answer is ACK exactly when it is the host address 42, so a
\* general-call match (address 0) gets NACK+complete
C29_HostAddressAccepted ==
    JustAddressed(0) =>
        /\ s_lastAddress[0] = SDATA[0] \div 2
        /\ last_ev[0][6] <=> (SDATA[0] \div 2 = 42)
        /\ SCTRLB[0] = IF s_lastAddress[0] = 42 THEN S_ACK ELSE S_NACKCOMPLETE
        /\ s_lastAddress[0] = 0 => SCTRLB[0] = S_NACKCOMPLETE
\* a repeated start to the general-call address, after the host address was
\* accepted and a byte written, has been refused
C29_GeneralCallRefused ==
    /\ JustAddressed(0) /\ Len(sess[0]) = 3
    /\ sess[0][1][2] = 42 /\ sess[0][1][4]
    /\ s_lastAddress[0] = 0 /\ SDATA[0] \in {0, 1}
    /\ SCTRLB[0] = S_NACKCOMPLETE

\* ---------------------------------------------------------------------- C30
\* C30: an ADDRESSED event of the application-facing bus whose matched
\* address is the one setup() passed to twi1s_init is answered with ACK
C30_AppAddressAccepted ==
    (JustAddressed(1) /\ s_lastAddress[1] = SADDR[1] \div 2)
        => SCTRLB[1] = S_ACK

\* bus 1 answers every ADDRESSED event with NACK+complete, whatever address
\* its hardware matched
C30_AppBusRefusesAll == JustAddressed(1) => SCTRLB[1] = S_NACKCOMPLETE
\* the address bus 1 was enabled with has been refused
C30_EnabledAddressRefused ==
    /\ JustAddressed(1) /\ s_lastAddress[1] = fromHost_addr
    /\ SADDR[1] \div 2 = fromHost_addr
    /\ SCTRLB[1] = S_NACKCOMPLETE

\* ---------------------------------------------------------------------- C31
\* the session data of bus b and the slots of the print job
SessionData(b) ==
    <<RxBuffer[b], RxBufferLength[b], TxBuffer[b], TxBufferLength[b],
      TxBufferIndex[b]>>
PrintSlots(pj) ==
    <<pj.printOp1Buffer, pj.printOp1BufferLength, pj.printOp1BufferIndex,
      pj.printOp1rw, pj.printOp2Buffer, pj.printOp2BufferLength,
      pj.printOp2BufferIndex, pj.printOp2rw>>

\* C31: an ADDRESSED event that the callback refuses (the matched address is
\* not the address of the bus) leaves the receive buffer and length, the
\* transmit buffer, length and cursor of the bus and the print slots as they
\* were
C31_RejectedAddressChangesNothing ==
    [][\A b \in Buses : (AddressedOf(b) /\ ~last_ev'[b][6]) =>
          /\ SessionData(b)' = SessionData(b)
          /\ PrintSlots(printJob') = PrintSlots(printJob)]_vars

\* the same for a refused ADDRESSED that finds nothing received
C31_RejectedWithNothingReceived ==
    [][\A b \in Buses :
          (AddressedOf(b) /\ ~last_ev'[b][6] /\ RxBufferLength[b] = 0) =>
             /\ SessionData(b)' = SessionData(b)
             /\ PrintSlots(printJob') = PrintSlots(printJob)]_vars

\* ---------------------------------------------------------------------- C32
\* the interrupt of bus b that is about to be handled begins a new session
BeginsSession(b) ==
    AddressedOf(b) /\ (last_ev[b] = <<>> \/ Terminal(last_ev[b]))

\* C32: the ADDRESSED event that begins a new session of a bus (its previous
\* event was STOPPED or ERROR, or there was none) finds the receive length
\* and the transmit length of that bus both zero
C32_SessionStartsClean ==
    [][\A b \in Buses : BeginsSession(b) =>
          RxBufferLength[b] = 0 /\ TxBufferLength[b] = 0]_vars

\* the same for the sessions that do not follow an ERROR event
C32_CleanAfterStopped ==
    [][\A b \in Buses :
          (BeginsSession(b) /\ (last_ev[b] = <<>> \/ Kind(last_ev[b]) = "S"))
             => RxBufferLength[b] = 0 /\ TxBufferLength[b] = 0]_vars

\* bytes received before an ERROR event are in the transmit buffer of the
\* session that follows it
C32_BytesOfFailedSessionKept ==
    \E b \in Buses :
        /\ JustAddressed(b)
        /\ Len(sess[b]) = 1
        /\ prev[b].end = "E"
        /\ prev[b].bytes # <<>>
        /\ TxBufferLength[b] = Len(prev[b].bytes)
        /\ \A i \in 1 .. TxBufferLength[b] :
               TxBuffer[b][i - 1] = prev[b].bytes[i]


\* ---------------------------------------------------------------------- C33
\* a print slot holds bytes the monitor has not written yet
Queued ==
    \/ printJob.printOp1BufferIndex < printJob.printOp1BufferLength
    \/ printJob.printOp2BufferIndex < printJob.printOp2BufferLength
\* both slot cursors have reached their lengths: the capture condition of
\* twisCallback can hold again
Drained ==
    /\ printJob.printOp1BufferIndex >= printJob.printOp1BufferLength
    /\ printJob.printOp2BufferIndex >= printJob.printOp2BufferLength

\* C33: with the main loop running and room on the output stream again and
\* again, a queued print slot is followed in the end by both slot cursors at
\* their lengths (unless abort_safe() halts the program first)
C33_QueuedLeadsToDrained == Queued ~> (Drained \/ Aborted)

\* the monitor is back in state 0 with slot 1 written out and slot 2 queued:
\* i2c_monitor returns at once, and the capture condition is false
SlotTwoStale ==
    /\ debug_print_done = 0
    /\ printJob.printOp1BufferIndex >= printJob.printOp1BufferLength
    /\ printJob.printOp2BufferIndex < printJob.printOp2BufferLength
\* no step of the program leaves that state
C33_StaleSlotStays == [][SlotTwoStale => SlotTwoStale']_vars
\* slot 2 was queued by a STOPPED event after the trailer of the record
C33_SlotTwoQueuedAfterTrailer ==
    /\ SlotTwoStale
    /\ JustStopped(0)
    /\ mon_rec # <<>> /\ mon_rec[Len(mon_rec)][1] = "trailer"

\* ---------------------------------------------------------------------- C34
Max(a, b) == IF a >= b THEN a ELSE b
\* one round of the loop of twim_waitUS
DelayStep == mpc = "wait" /\ wait_call' # wait_call
\* the delay steps of the call, that round included
Steps == wait_call.steps + 1

\* C34: a call of twim_waitUS(us) performs at most max(1, us) delay steps,
\* for every us including 0
C34_WaitBoundedByArgument ==
    [][DelayStep => Steps <= Max(1, wait_call.us)]_vars

\* C34 for the arguments other than 0: at most us delay steps
C34_PositiveWaitBounded ==
    [][(DelayStep /\ wait_call.us # 0) =>
          Steps <= wait_call.us]_vars
\* the step that finds the engine not busy is the last one of the call
C34_ReturnsWhenNotBusy ==
    [][(DelayStep /\ ~m_isBusy(MCur)) =>
          (mpc' = "idle" /\ wait_ret' = <<twim_lastResultOK(MCur)>>)]_vars
\* twim_waitUS(0) goes on after its first delay step, counting down from
\* 65535
C34_ZeroWaitsOn ==
    mpc = "wait" /\ wait_call.us = 0 /\ wait_call.steps = 1 /\ wait_us = 65535

\* ---------------------------------------------------------------------- C35
\* the stores of the handler run that leads to the next state are inside
\* the read buffer of request r
StoresInside(r) ==
    \A i \in DOMAIN m_log' :
        m_log'[i][1] = "store" =>
            /\ r.r # "null"
            /\ m_log'[i][2][1] = r.r
            /\ m_log'[i][2][2] \in 0 .. r.rn - 1
\* a master interrupt that stores a byte
StoreStep == \E i \in DOMAIN m_log' : m_log'[i][1] = "store"

\* C35: every byte the master interrupt handler stores goes to an offset in
\* [0, rn) of the read buffer the transaction was started with, and no more
\* than rn bytes are stored, also for rn = 0 and without a read buffer
C35_StoreInsideReadBuffer ==
    [][StoreStep =>
          (StoresInside(m_req) /\ StoredBytes + 1 <= m_req.rn)]_vars

\* C35 for the transactions that have a read buffer of length 1 or more
C35_StoreInsideNonEmptyBuffer ==
    [][(StoreStep /\ m_req.r # "null" /\ m_req.rn > 0) =>
          (StoresInside(m_req) /\ StoredBytes + 1 <= m_req.rn)]_vars
\* a byte has been stored for a request whose read buffer has length 0
C35_StoredIntoEmptyBuffer ==
    /\ \E i \in DOMAIN m_log : m_log[i] = <<"store", <<"r", 0>>>>
    /\ m_req.r = "r" /\ m_req.rn = 0 /\ m_hist = <<READOK>>
\* a byte has been stored through the null pointer twim_write(wbuf, 0) sets
C35_StoredThroughNull ==
    /\ \E i \in DOMAIN m_log : m_log[i] = <<"store", NULL>>
    /\ m_req.op = "write" /\ m_req.wn = 0 /\ m_hist = <<READOK>>

\* ---------------------------------------------------------------------- C36
WriteOnly(r) == r.op \in {"write", "writeWrite"}
\* the step starts the transaction of a write-only request in read direction
StartsReading ==
    /\ WriteOnly(m_req')
    /\ \E i \in DOMAIN m_log' : m_log'[i] = <<"start", 1>>
\* a master interrupt of a write-only transaction switches to the read phase
\* or stores a received byte
ReadsOrStores ==
    /\ WriteOnly(m_req)
    /\ m_log' # <<>> /\ m_log'[1][1] = "irq"
    /\ \E i \in DOMAIN m_log' : m_log'[i][1] \in {"startRead", "store"}

\* C36: a transaction started by twim_write(wbuf, wn), for every wn, or by
\* twim_writeWrite is started in write direction, never switches to the
\* read phase and never stores a received byte
C36_WriteOnlyNeverReads == [][~StartsReading /\ ~ReadsOrStores]_vars

\* C36 for twim_writeWrite and for twim_write with wn other than 0
C36_WriteWriteNeverReads ==
    [][(m_req'.op = "write" => m_req'.wn # 0) => ~StartsReading]_vars
C36_NonEmptyWriteNeverReads ==
    [][(m_req.op = "write" => m_req.wn # 0) => ~ReadsOrStores]_vars
\* twim_write(wbuf, 0) has started a transaction in read direction
C36_EmptyWriteStartsRead ==
    /\ m_req.op = "write" /\ m_req.wn = 0
    /\ Len(m_log) = 2 /\ m_log[1][1] = "call" /\ m_log[2] = <<"start", 1>>
    /\ MADDR.rw = 1 /\ MCTRLA.irq

OffInFlight == m_log' = <<<<"off", 1>>>>
\* the step is a handler run, or stores or sends a byte, or runs the
\* completion callback
EngineActs ==
    \E i \in DOMAIN m_log' :
        m_log'[i][1] \in {"irq", "store", "send", "callback"}
\* the step is a request call made on the engine switched on again, and it
\* starts the transaction of that request from the beginning
FreshStart ==
    /\ txbuf_' = <<m_req'.w, 0>> /\ txbufEnd_' = <<m_req'.w, m_req'.wn>>
    /\ m_req'.op # "writeWrite" =>
          (rxbuf_' = <<m_req'.r, 0>> /\ rxbufEnd_' = <<m_req'.r, m_req'.rn>>)
    /\ m_req'.op = "writeWrite" =>
          (txbuf2_' = <<m_req'.w2, 0>> /\ rxbuf_' = NULL)
    /\ MCTRLA'.en /\ MCTRLA'.irq /\ ~twi_lastResult_'
    /\ m_hist' = <<>> /\ m_sent' = <<>>

NullInit == init_call' # init_call /\ init_call'[3] = "null"
SlaveIrqOn(b) == BitAnd(SCTRLA[b], 224) # 0

\* C39: twis_init / twi1s_init called with a null callback changes no
\* register and no variable of the slave engines, and in every state in
\* which the slave interrupts of a bus are enabled the callback of that bus
\* is not null
C39_NullInitChangesNothing ==
    /\ [](\A b \in Buses : SlaveIrqOn(b) => twis_isrCallback_[b] # "null")
    /\ [][NullInit =>
            UNCHANGED <<SDATA, SADDR, SCTRLA, SCTRLB, twis_isrCallback_,
                        s_lastAddress, is1st, cbVars>>]_vars
\* a bus that was enabled with its callback has been given a null callback
\* since: its interrupts are enabled and its callback is still in place
C39_NullAfterEnable ==
    /\ init_call # <<>> /\ init_call[3] = "null"
    /\ SlaveIrqOn(init_call[1])
    /\ twis_isrCallback_[init_call[1]] = CallbackOf(init_call[1])
    /\ SADDR[init_call[1]] # 2 * init_call[2] + 1
====
